---- MODULE Spec2Model ----
(***************************************************************************)
(* Model of the whenever-parser crate: the lexer (src/src/lexer.rs), the   *)
(* recursive-descent parser (src/src/parser.rs), the span derivation of    *)
(* the AST nodes (src/src/ast.rs) and the entry point (src/src/lib.rs).    *)
(*                                                                         *)
(* The input buffer is a sequence of one-character strings.  A slice       *)
(* '&str' of the buffer is a pair of byte offsets [s, e) into it (s is the *)
(* pointer, e - s the length); a cursor is the offset where the remaining  *)
(* input starts.  Only ASCII characters are modelled, so byte offsets and  *)
(* character indices coincide.                                             *)
(***************************************************************************)
EXTENDS Integers, Sequences, FiniteSets, TLC

VARIABLES input, pc, result

vars == <<input, pc, result>>

RECURSIVE trim_start(_)
RECURSIVE scan_string(_, _, _)
RECURSIVE scan_string_no_escape(_, _, _)
RECURSIVE scan_while(_, _, _)
RECURSIVE from_str_radix_wrapping(_, _, _, _)
RECURSIVE from_str_radix(_, _, _, _)
RECURSIVE get_str(_)
RECURSIVE hex(_)
RECURSIVE dec(_)
RECURSIVE get_id(_, _)
RECURSIVE get_id_no_type(_, _)
RECURSIVE to_dot_fields(_, _, _)
RECURSIVE to_dot_recurse(_, _)
RECURSIVE hex_digits(_, _, _)
RECURSIVE Marks(_, _, _)
RECURSIVE pieces_text(_, _, _, _, _, _)
RECURSIVE span_fold(_, _, _)
RECURSIVE eat_absnumber(_, _)
RECURSIVE eat_number(_, _)
RECURSIVE eat_boolean(_, _)
RECURSIVE eat_string(_, _)
RECURSIVE eat_lineops(_, _)
RECURSIVE eat_statement(_, _)
RECURSIVE number_primary(_, _)
RECURSIVE tokenize(_)
RECURSIVE Subtrees(_)
RECURSIVE SubtreesOf(_, _)
RECURSIVE WrapperChain(_)
RECURSIVE Innermost(_)
RECURSIVE FlattenLineOps(_)
RECURSIVE WrapperKinds(_)
RECURSIVE WrappersEnd(_)
RECURSIVE ExpectedNumber(_, _)
RECURSIVE ExpectedBoolean(_, _)
RECURSIVE ExpectedLineOps(_, _)
RECURSIVE IsLineOpsForm(_, _)
RECURSIVE ValueOf(_, _, _)

-----------------------------------------------------------------------------
(* Characters *)

Digits == {"0", "1", "2", "3", "4", "5", "6", "7", "8", "9"}

LowerHex == {"a", "b", "c", "d", "e", "f"}

UpperHex == {"A", "B", "C", "D", "E", "F"}

Lower == {"a", "b", "c", "d", "e", "f", "g", "h", "i", "j", "k", "l", "m",
          "n", "o", "p", "q", "r", "s", "t", "u", "v", "w", "x", "y", "z"}

Upper == {"A", "B", "C", "D", "E", "F", "G", "H", "I", "J", "K", "L", "M",
          "N", "O", "P", "Q", "R", "S", "T", "U", "V", "W", "X", "Y", "Z"}

WhiteSpace == {" ", "\t", "\n", "\r"}

BinDigits == {"0", "1"}

\* char::to_digit: the value of a digit character
DigitVal(c) ==
    CASE c = "0" -> 0 [] c = "1" -> 1 [] c = "2" -> 2 [] c = "3" -> 3
      [] c = "4" -> 4 [] c = "5" -> 5 [] c = "6" -> 6 [] c = "7" -> 7
      [] c = "8" -> 8 [] c = "9" -> 9
      [] c \in {"a", "A"} -> 10 [] c \in {"b", "B"} -> 11
      [] c \in {"c", "C"} -> 12 [] c \in {"d", "D"} -> 13
      [] c \in {"e", "E"} -> 14 [] c \in {"f", "F"} -> 15
      [] OTHER -> 99

-----------------------------------------------------------------------------
(* Slices of the input buffer *)

\* the character at byte offset i
At(i) == input[i + 1]

InputLen == Len(input)

Slice(s, e) == [s |-> s, e |-> e]

SliceLen(sl) == sl.e - sl.s

\* the characters of a slice
Text(sl) == SubSeq(input, sl.s + 1, sl.e)

-----------------------------------------------------------------------------
(* lexer::eat *)

\* str::trim_start: the offset of the first non-whitespace character at or
\* after c
trim_start(c) ==
    IF c < InputLen /\ At(c) \in WhiteSpace THEN trim_start(c + 1) ELSE c

\* make_token! whose token starts where the untrimmed input starts
make_token_keeps_whitespace(type, p, pos) ==
    [ok |-> TRUE, variant |-> type, val |-> 0,
     tok |-> Slice(0, p + pos), cur |-> p + pos]

\* make_token!(type, input, pos) where 'input' starts at offset p
make_token(type, p, pos) ==
    [ok |-> TRUE, variant |-> type, val |-> 0,
     tok |-> Slice(p, p + pos), cur |-> p + pos]

LexErr(msg, sl) == [ok |-> FALSE, msg |-> msg, span |-> sl]

\* a string scan that ends the literal at the first quote, escaped or not
scan_string_no_escape(p, i, escape) ==
    IF i >= InputLen THEN -1
    ELSE IF At(i) = "\"" THEN i + 1
    ELSE scan_string_no_escape(p, i + 1, FALSE)

\* the loop of the string arm: i is the offset of the character looked at;
\* the offset just after the closing quote, or -1 at end of input
scan_string(p, i, escape) ==
    IF i >= InputLen THEN -1
    ELSE IF At(i) = "\"" /\ ~escape THEN i + 1
    ELSE IF At(i) = "\\" /\ ~escape THEN scan_string(p, i + 1, TRUE)
    ELSE scan_string(p, i + 1, FALSE)

\* the digit and letter loops: the offset just after the longest run of
\* characters of 'class' starting at offset i, or 'dflt' when the run is empty
scan_while(class, i, dflt) ==
    IF i < InputLen /\ At(i) \in class THEN scan_while(class, i + 1, i + 1)
    ELSE dflt

\* the width of usize in bits.  The arithmetic of from_str_radix is checked
\* in the same way at every width; 16 bits, the width of the narrowest
\* targets, keeps the literals that overflow short
UsizeBits == 16

\* usize::MAX
UsizeMax == 2 ^ UsizeBits - 1

\* from_str_radix whose multiplication and addition wrap around 2^UsizeBits
from_str_radix_wrapping(i, e, base, acc) ==
    IF i >= e THEN acc
    ELSE IF DigitVal(At(i)) >= base THEN -1
    ELSE from_str_radix_wrapping(i + 1, e, base,
             (acc * base + DigitVal(At(i))) % (UsizeMax + 1))

\* usize::from_str_radix over the characters [i, e), digit by digit with
\* checked arithmetic: -1 on an invalid digit (IntErrorKind::InvalidDigit),
\* -2 when the value passes usize::MAX (IntErrorKind::PosOverflow)
from_str_radix(i, e, base, acc) ==
    IF i >= e THEN acc
    ELSE IF DigitVal(At(i)) >= base THEN -1
    ELSE IF acc * base + DigitVal(At(i)) > UsizeMax THEN -2
    ELSE from_str_radix(i + 1, e, base, acc * base + DigitVal(At(i)))

\* error.to_string() of the ParseIntError
int_error(num) ==
    IF num = -1 THEN "invalid digit found in string"
    ELSE "number too large to fit in target type"

Keywords ==
    [again  |-> <<"a", "g", "a", "i", "n">>,
     defer  |-> <<"d", "e", "f", "e", "r">>,
     forget |-> <<"f", "o", "r", "g", "e", "t">>,
     N      |-> <<"N">>,
     print  |-> <<"p", "r", "i", "n", "t">>,
     read   |-> <<"r", "e", "a", "d">>,
     U      |-> <<"U">>]

\* number_prefix that takes '0B' for a binary prefix as well
number_prefix_upper_b(p) ==
    LET c2 == IF p + 1 < InputLen THEN At(p + 1) ELSE "EOF" IN
    IF At(p) # "0" THEN [base |-> 10, start |-> 0, end |-> 0]
    ELSE IF c2 \in {"b", "B"} THEN
        LET pos == scan_while(BinDigits, p + 2, p + 2) - p
        IN  IF 2 < pos THEN [base |-> 2, start |-> 2, end |-> pos]
            ELSE [base |-> 10, start |-> 0, end |-> 0]
    ELSE IF c2 \in {"x", "X"} THEN
        LET pos == scan_while(Digits \cup LowerHex \cup UpperHex,
                              p + 2, p + 2) - p
        IN  IF 2 < pos THEN [base |-> 16, start |-> 2, end |-> pos]
            ELSE [base |-> 10, start |-> 0, end |-> 0]
    ELSE IF c2 # "EOF" /\ c2 \in Digits THEN
        [base |-> 8, start |-> 1, end |-> 0]
    ELSE [base |-> 10, start |-> 0, end |-> 0]

\* number_prefix that reads '0' followed by a digit as a decimal number:
\* no octal
number_prefix_no_octal(p) ==
    LET c2 == IF p + 1 < InputLen THEN At(p + 1) ELSE "EOF" IN
    IF At(p) # "0" THEN [base |-> 10, start |-> 0, end |-> 0]
    ELSE IF c2 = "b" THEN
        LET pos == scan_while(BinDigits, p + 2, p + 2) - p
        IN  IF 2 < pos THEN [base |-> 2, start |-> 2, end |-> pos]
            ELSE [base |-> 10, start |-> 0, end |-> 0]
    ELSE IF c2 \in {"x", "X"} THEN
        LET pos == scan_while(Digits \cup LowerHex \cup UpperHex,
                              p + 2, p + 2) - p
        IN  IF 2 < pos THEN [base |-> 16, start |-> 2, end |-> pos]
            ELSE [base |-> 10, start |-> 0, end |-> 0]
    ELSE [base |-> 10, start |-> 0, end |-> 0]

\* the prefix of a number decides (base, start, end); end = 0 means "not
\* set yet"
number_prefix(p) ==
    LET c2 == IF p + 1 < InputLen THEN At(p + 1) ELSE "EOF" IN
    IF At(p) # "0" THEN [base |-> 10, start |-> 0, end |-> 0]
    ELSE IF c2 = "b" THEN
        LET pos == scan_while(BinDigits, p + 2, p + 2) - p
        IN  IF 2 < pos THEN [base |-> 2, start |-> 2, end |-> pos]
            ELSE [base |-> 10, start |-> 0, end |-> 0]
    ELSE IF c2 \in {"x", "X"} THEN
        LET pos == scan_while(Digits \cup LowerHex \cup UpperHex,
                              p + 2, p + 2) - p
        IN  IF 2 < pos THEN [base |-> 16, start |-> 2, end |-> pos]
            ELSE [base |-> 10, start |-> 0, end |-> 0]
    ELSE IF c2 # "EOF" /\ c2 \in Digits THEN
        [base |-> 8, start |-> 1, end |-> 0]
    ELSE [base |-> 10, start |-> 0, end |-> 0]

\* the decimal digit loop, run when the prefix has not set 'end'
number_end(p, pre) ==
    IF pre.end = 0 THEN scan_while(Digits, p + pre.start, p) - p ELSE pre.end

\* number_token whose error spans the whole literal, base prefix included
number_token_spans_literal(p, pre, end) ==
    LET num == from_str_radix(p + pre.start, p + end, pre.base, 0)
    IN  IF num >= 0
        THEN [ok |-> TRUE, variant |-> "Number", val |-> num,
              tok |-> Slice(p, p + end), cur |-> p + end]
        ELSE LexErr(int_error(num), Slice(p, p + end))

\* split_at(end) and from_str_radix(&tok[start..], base)
number_token(p, pre, end) ==
    LET num == from_str_radix(p + pre.start, p + end, pre.base, 0)
    IN  IF num >= 0
        THEN [ok |-> TRUE, variant |-> "Number", val |-> num,
              tok |-> Slice(p, p + end), cur |-> p + end]
        ELSE LexErr(int_error(num), Slice(p + pre.start, p + end))

number_from(p, pre) == number_token(p, pre, number_end(p, pre))

eat_number_literal(p) == number_from(p, number_prefix(p))

\* eat_word that takes a leading N for the keyword whatever letters follow
\* it: a word is split into a keyword and a rest
eat_word_splits(p) ==
    LET end  == scan_while(Lower \cup Upper, p + 1, p + 1) - p
        word == SubSeq(input, p + 1, p + end)
    IN  CASE At(p) = "N"            -> make_token("N", p, 1)
          [] word = Keywords.again  -> make_token("Again", p, end)
          [] word = Keywords.defer  -> make_token("Defer", p, end)
          [] word = Keywords.forget -> make_token("Forget", p, end)
          [] word = Keywords.print  -> make_token("Print", p, end)
          [] word = Keywords.read   -> make_token("Read", p, end)
          [] word = Keywords.U      -> make_token("U", p, end)
          [] OTHER -> LexErr("Unknown token", Slice(p, InputLen))

eat_word(p) ==
    LET end  == scan_while(Lower \cup Upper, p + 1, p + 1) - p
        word == SubSeq(input, p + 1, p + end)
    IN  CASE word = Keywords.again  -> make_token("Again", p, end)
          [] word = Keywords.defer  -> make_token("Defer", p, end)
          [] word = Keywords.forget -> make_token("Forget", p, end)
          [] word = Keywords.N      -> make_token("N", p, end)
          [] word = Keywords.print  -> make_token("Print", p, end)
          [] word = Keywords.read   -> make_token("Read", p, end)
          [] word = Keywords.U      -> make_token("U", p, end)
          [] OTHER -> LexErr("Unknown token", Slice(p, InputLen))

\* the match of lexer::eat on the trimmed input, which starts at offset p
eat_trimmed(p) ==
    LET c == IF p < InputLen THEN At(p) ELSE "EOF"
    IN  CASE c = "EOF" -> make_token("EOI", p, 0)
          [] c = "+" -> make_token("Plus", p, 1)
          [] c = "-" -> make_token("Minus", p, 1)
          [] c \in {"*", "/"} -> make_token("MathOp", p, 1)
          [] c = "!" -> make_token("UnBoolOp", p, 1)
          [] c = "," -> make_token("Comma", p, 1)
          [] c = "(" -> make_token("LeftParens", p, 1)
          [] c = ")" -> make_token("RightParens", p, 1)
          [] c = ";" -> make_token("Semicolon", p, 1)
          [] c = "#" -> make_token("Sharp", p, 1)
          [] c = "\"" ->
                LET e == scan_string(p, p + 1, FALSE)
                IN  IF e >= 0 THEN make_token("String", p, e - p)
                    ELSE LexErr("End of input while reading string",
                                Slice(p, InputLen))
          [] c \in Digits -> eat_number_literal(p)
          [] c \in Lower \cup Upper -> eat_word(p)
          [] c \in {"<", ">"} ->
                IF p + 1 < InputLen /\ At(p + 1) = "="
                THEN make_token("BinNumBoolOp", p, 2)
                ELSE make_token("BinNumBoolOp", p, 1)
          [] OTHER ->
                LET two == IF p + 2 <= InputLen
                           THEN SubSeq(input, p + 1, p + 2) ELSE <<>>
                IN  IF two \in {<<"&", "&">>, <<"|", "|">>}
                    THEN make_token("BinBoolOp", p, 2)
                    ELSE IF two \in {<<"=", "=">>, <<"!", "=">>}
                    THEN make_token("BinNumBoolOp", p, 2)
                    ELSE LexErr("Unknown token", Slice(p, InputLen))

\* lexer::eat on the remaining input that starts at offset c0
eat(c0) == eat_trimmed(trim_start(c0))

-----------------------------------------------------------------------------
(* AST nodes (ast.rs).  A terminal is [type, tok] (NumberToken also has    *)
(* val), a nonterminal is [type, range, kids] with kids in field order, a  *)
(* conversion is [type, kids] with one child.  The alternation structs     *)
(* (Number, Boolean, ...) only box a node and are not nodes themselves.    *)

ConversionTypes == {"NumToBool", "NumToLineOp", "NumToString", "StringToNum"}

\* define_terminal!
Terminal(type, tok) == [type |-> type, tok |-> tok]

NumberToken(tok, val) == [type |-> "NumberToken", tok |-> tok, val |-> val]

\* define_conversion! and StringToNum
Conversion(type, child) == [type |-> type, kids |-> <<child>>]

\* Graph::get_str
get_str(n) ==
    IF n.type \in ConversionTypes THEN get_str(n.kids[1])
    ELSE IF "tok" \in DOMAIN n THEN n.tok
    ELSE n.range

\* the loop step that takes the start of every field as the lowest one: the
\* range starts at the last field
span_step_last_start(acc, s) ==
    [minptr |-> s.s,
     minpos |-> s.s,
     maxpos |-> IF acc.maxpos < s.s + SliceLen(s) THEN s.s + SliceLen(s)
                ELSE acc.maxpos]

\* the loop of define_nonterminal!::new over the fields, in field order.
\* minptr = -1 is the null pointer; minpos starts above every address of the
\* buffer (usize::MAX in the code).
span_step(acc, s) ==
    [minptr |-> IF s.s < acc.minpos THEN s.s ELSE acc.minptr,
     minpos |-> IF s.s < acc.minpos THEN s.s ELSE acc.minpos,
     maxpos |-> IF acc.maxpos < s.s + SliceLen(s) THEN s.s + SliceLen(s)
                ELSE acc.maxpos]

span_fold(kids, i, acc) ==
    IF i > Len(kids) THEN acc
    ELSE span_fold(kids, i + 1, span_step(acc, get_str(kids[i])))

\* the values of minptr, minpos and maxpos before the loop
span_start == [minptr |-> -1, minpos |-> InputLen + 1, maxpos |-> 0]

\* the end of new: the test of the range and the node, len being
\* maxpos - minpos
ranged(type, kids, minptr, len) ==
    IF minptr = -1 \/ len < 1
    THEN [type |-> "panic"]
    ELSE [type |-> type, range |-> Slice(minptr, minptr + len),
          kids |-> kids]

spanned(type, kids, acc) ==
    ranged(type, kids, acc.minptr, acc.maxpos - acc.minpos)

\* new with the length one too short: the range loses its last character
new_off_by_one(type, kids) ==
    LET acc == span_fold(kids, 1, span_start)
        len == acc.maxpos - acc.minpos
    IN  IF acc.minptr = -1 \/ len < 1
        THEN [type |-> "panic"]
        ELSE [type |-> type,
              range |-> Slice(acc.minptr, acc.minptr + len - 1),
              kids |-> kids]

\* define_nonterminal!::new: the node, or the panic "Invalid range"
new(type, kids) == spanned(type, kids, span_fold(kids, 1, span_start))

-----------------------------------------------------------------------------
(* Results.  Ok((node, cursor)) is [ok |-> TRUE, node, cur]; Err((msg,     *)
(* slice)) is [ok |-> FALSE, msg, span].  Every result also carries 'log', *)
(* the history of the calls made so far: one entry per lexer::eat call and *)
(* one per error a production raises itself.                               *)

Ev(ok, msg, sl) == [ok |-> ok, msg |-> msg, span |-> sl]

\* a lexer::eat call made by the parser, recorded in the log
Logged(r, log) ==
    IF r.ok
    THEN [ok |-> TRUE, variant |-> r.variant, val |-> r.val,
          tok |-> r.tok, cur |-> r.cur,
          log |-> Append(log, Ev(TRUE, "", r.tok))]
    ELSE [ok |-> FALSE, msg |-> r.msg, span |-> r.span,
          log |-> Append(log, Ev(FALSE, r.msg, r.span))]

Lex(c, log) == Logged(eat(c), log)

\* return Err((String::from(msg), slice))
Fail(msg, sl, log) ==
    [ok |-> FALSE, msg |-> msg, span |-> sl,
     log |-> Append(log, Ev(FALSE, msg, sl))]

Ok(node, cur, log) == [ok |-> TRUE, node |-> node, cur |-> cur, log |-> log]

\* Ok((T::new(fields), cursor)); new may panic
Built(n, cur, log) ==
    IF n.type = "panic"
    THEN [ok |-> FALSE, msg |-> "panic: Invalid range",
          span |-> Slice(0, 0), log |-> log]
    ELSE Ok(n, cur, log)

Build(type, kids, cur, log) == Built(new(type, kids), cur, log)

\* the ? operator: an Err is returned to the caller at once, an Ok value is
\* handed to the rest of the function
Try(r, K(_)) == IF ~r.ok THEN r ELSE K(r)

-----------------------------------------------------------------------------
(* parser.rs.  The messages are the code's, with the backquotes around a   *)
(* delimiter written as apostrophes (a TLA+ string cannot hold a           *)
(* backquote).                                                             *)

NumberStart == {"Number", "N", "Read"}

\* the token of a PLUS / MINUS / MATHOP as a node
MathOpNode(t) ==
    CASE t.variant = "Plus"   -> Terminal("PlusToken", t.tok)
      [] t.variant = "Minus"  -> Terminal("MinusToken", t.tok)
      [] t.variant = "MathOp" -> Terminal("MathOpToken", t.tok)

eat_absnumber(cursor0, log) ==
    Try(Lex(cursor0, log), LAMBDA token0 :
    IF token0.variant = "Number" THEN
        Ok(NumberToken(token0.tok, token0.val), token0.cur, token0.log)
    ELSE IF token0.variant = "N" THEN
        Try(Lex(token0.cur, token0.log), LAMBDA token1 :
        IF token1.variant # "LeftParens"
        THEN Fail("Expected '('", token1.tok, token1.log)
        ELSE
        Try(eat_number(token1.cur, token1.log), LAMBDA number :
        Try(Lex(number.cur, number.log), LAMBDA token3 :
        IF token3.variant # "RightParens"
        THEN Fail("Expected ')'", token3.tok, token3.log)
        ELSE Build("N", <<Terminal("NToken", token0.tok),
                          Terminal("LeftParensToken", token1.tok),
                          number.node,
                          Terminal("RightParensToken", token3.tok)>>,
                   token3.cur, token3.log))))
    ELSE IF token0.variant = "Read" THEN
        Try(Lex(token0.cur, token0.log), LAMBDA token1 :
        IF token1.variant # "LeftParens"
        THEN Fail("Expected '('", token1.tok, token1.log)
        ELSE
        Try(Lex(token1.cur, token1.log), LAMBDA token2 :
        IF token2.variant # "RightParens"
        THEN Fail("Expected ')'", token2.tok, token2.log)
        ELSE Build("Read", <<Terminal("ReadToken", token0.tok),
                             Terminal("LeftParensToken", token1.tok),
                             Terminal("RightParensToken", token2.tok)>>,
                   token2.cur, token2.log)))
    ELSE Fail("Expected number", token0.tok, token0.log))

\* the unary arm with the operand read as a primary only: the prefix binds
\* to the next operand instead of everything to its right
unop_number_binds_tight(token0) ==
    Try(number_primary(token0.cur, token0.log), LAMBDA number :
    Build("UnOpNumber", <<MathOpNode(token0), number.node>>,
          number.cur, number.log))

\* the Plus | Minus arm of eat_number: unmathop number
unop_number(token0) ==
    Try(eat_number(token0.cur, token0.log), LAMBDA number :
    Build("UnOpNumber", <<MathOpNode(token0), number.node>>,
          number.cur, number.log))

\* the first half of eat_number: the primary (number1, cursorlast)
number_primary(cursor0, log) ==
    Try(Lex(cursor0, log), LAMBDA token0 :
    IF token0.variant \in NumberStart THEN
        Try(eat_absnumber(cursor0, token0.log), LAMBDA absnum :
        Build("AbsoluteNumber", <<absnum.node>>, absnum.cur, absnum.log))
    ELSE IF token0.variant \in {"Plus", "Minus"} THEN unop_number(token0)
    ELSE IF token0.variant = "LeftParens" THEN
        Try(eat_number(token0.cur, token0.log), LAMBDA number :
        Try(Lex(number.cur, number.log), LAMBDA token2 :
        IF token2.variant # "RightParens"
        THEN Fail("Expected ')'", token2.tok, token2.log)
        ELSE Build("ParensNumber",
                   <<Terminal("LeftParensToken", token0.tok),
                     number.node,
                     Terminal("RightParensToken", token2.tok)>>,
                   token2.cur, token2.log)))
    ELSE IF token0.variant \in {"String", "U"} THEN
        Try(eat_string(cursor0, token0.log), LAMBDA string :
        Ok(Conversion("StringToNum", string.node), string.cur, string.log))
    ELSE Fail("Expected number", token0.tok, token0.log))

\* eat_number with the right operand read as a primary only: the fold stops
\* after one operator
eat_number_one_operator(cursor0, log) ==
    Try(number_primary(cursor0, log), LAMBDA number1 :
    Try(Lex(number1.cur, number1.log), LAMBDA tokenlast :
    IF tokenlast.variant \in {"Plus", "Minus", "MathOp"} THEN
        Try(number_primary(tokenlast.cur, tokenlast.log), LAMBDA number2 :
        Build("BinOpNumber",
              <<number1.node, MathOpNode(tokenlast), number2.node>>,
              number2.cur, number2.log))
    ELSE Ok(number1.node, number1.cur, tokenlast.log)))

\* eat_number that builds a BinOpNumber with its operands exchanged: the
\* leaves of the tree leave the order of the source
eat_number_swaps_operands(cursor0, log) ==
    Try(number_primary(cursor0, log), LAMBDA number1 :
    Try(Lex(number1.cur, number1.log), LAMBDA tokenlast :
    IF tokenlast.variant \in {"Plus", "Minus", "MathOp"} THEN
        Try(eat_number(tokenlast.cur, tokenlast.log), LAMBDA number2 :
        Build("BinOpNumber",
              <<number2.node, MathOpNode(tokenlast), number1.node>>,
              number2.cur, number2.log))
    ELSE Ok(number1.node, number1.cur, tokenlast.log)))

eat_number(cursor0, log) ==
    Try(number_primary(cursor0, log), LAMBDA number1 :
    Try(Lex(number1.cur, number1.log), LAMBDA tokenlast :
    IF tokenlast.variant \in {"Plus", "Minus", "MathOp"} THEN
        Try(eat_number(tokenlast.cur, tokenlast.log), LAMBDA number2 :
        Build("BinOpNumber",
              <<number1.node, MathOpNode(tokenlast), number2.node>>,
              number2.cur, number2.log))
    ELSE Ok(number1.node, number1.cur, tokenlast.log)))

\* the first half of eat_boolean: the primary (boolean1, cursorlast)
boolean_primary(cursor0, log) ==
    Try(Lex(cursor0, log), LAMBDA token0 :
    IF token0.variant = "UnBoolOp" THEN
        Try(eat_boolean(token0.cur, token0.log), LAMBDA boolean :
        Build("UnOpBoolean",
              <<Terminal("UnBoolOpToken", token0.tok), boolean.node>>,
              boolean.cur, boolean.log))
    ELSE IF token0.variant = "LeftParens" THEN
        Try(eat_boolean(token0.cur, token0.log), LAMBDA boolean :
        Try(Lex(boolean.cur, boolean.log), LAMBDA token2 :
        IF token2.variant # "RightParens"
        THEN Fail("Expected ')'", token2.tok, token2.log)
        ELSE Build("ParensBoolean",
                   <<Terminal("LeftParensToken", token0.tok),
                     boolean.node,
                     Terminal("RightParensToken", token2.tok)>>,
                   token2.cur, token2.log)))
    ELSE IF token0.variant \in NumberStart \cup {"Plus", "Minus", "String", "U"}
    THEN
        Try(eat_number(cursor0, token0.log), LAMBDA number1 :
        Try(Lex(number1.cur, number1.log), LAMBDA token1 :
        IF token1.variant = "BinNumBoolOp" THEN
            Try(eat_number(token1.cur, token1.log), LAMBDA number2 :
            Build("BinOpNumBoolean",
                  <<number1.node,
                    Terminal("BinNumBoolOpToken", token1.tok),
                    number2.node>>,
                  number2.cur, number2.log))
        ELSE Ok(Conversion("NumToBool", number1.node),
                number1.cur, token1.log)))
    ELSE Fail("Expected boolean", token0.tok, token0.log))

\* eat_boolean with the right operand read as a primary only
eat_boolean_one_operator(cursor0, log) ==
    Try(boolean_primary(cursor0, log), LAMBDA boolean1 :
    Try(Lex(boolean1.cur, boolean1.log), LAMBDA tokenlast :
    IF tokenlast.variant = "BinBoolOp" THEN
        Try(boolean_primary(tokenlast.cur, tokenlast.log), LAMBDA boolean2 :
        Build("BinOpBoolean",
              <<boolean1.node,
                Terminal("BinBoolOpToken", tokenlast.tok),
                boolean2.node>>,
              boolean2.cur, boolean2.log))
    ELSE Ok(boolean1.node, boolean1.cur, tokenlast.log)))

eat_boolean(cursor0, log) ==
    Try(boolean_primary(cursor0, log), LAMBDA boolean1 :
    Try(Lex(boolean1.cur, boolean1.log), LAMBDA tokenlast :
    IF tokenlast.variant = "BinBoolOp" THEN
        Try(eat_boolean(tokenlast.cur, tokenlast.log), LAMBDA boolean2 :
        Build("BinOpBoolean",
              <<boolean1.node,
                Terminal("BinBoolOpToken", tokenlast.tok),
                boolean2.node>>,
              boolean2.cur, boolean2.log))
    ELSE Ok(boolean1.node, boolean1.cur, tokenlast.log)))

\* the first half of eat_string: the primary (string1, cursorlast)
\* string_primary whose U arm reads its argument with eat_number: U takes
\* any Number
string_primary_u_takes_number(cursor0, log) ==
    Try(Lex(cursor0, log), LAMBDA token0 :
    IF token0.variant = "String" THEN
        Ok(Terminal("StringToken", token0.tok), token0.cur, token0.log)
    ELSE IF token0.variant = "U" THEN
        Try(Lex(token0.cur, token0.log), LAMBDA token1 :
        IF token1.variant # "LeftParens"
        THEN Fail("Expected '('", token1.tok, token1.log)
        ELSE
        Try(eat_number(token1.cur, token1.log), LAMBDA number :
        Try(Lex(number.cur, number.log), LAMBDA token3 :
        IF token3.variant # "RightParens"
        THEN Fail("Expected ')'", token3.tok, token3.log)
        ELSE Build("U", <<Terminal("UToken", token0.tok),
                          Terminal("LeftParensToken", token1.tok),
                          number.node,
                          Terminal("RightParensToken", token3.tok)>>,
                   token3.cur, token3.log))))
    ELSE IF token0.variant
              \in NumberStart \cup {"Plus", "Minus", "LeftParens"} THEN
        Try(eat_number(cursor0, token0.log), LAMBDA number :
        Ok(Conversion("NumToString", number.node), number.cur, number.log))
    ELSE Fail("Expected string", token0.tok, token0.log))

string_primary(cursor0, log) ==
    Try(Lex(cursor0, log), LAMBDA token0 :
    IF token0.variant = "String" THEN
        Ok(Terminal("StringToken", token0.tok), token0.cur, token0.log)
    ELSE IF token0.variant = "U" THEN
        Try(Lex(token0.cur, token0.log), LAMBDA token1 :
        IF token1.variant # "LeftParens"
        THEN Fail("Expected '('", token1.tok, token1.log)
        ELSE
        Try(eat_absnumber(token1.cur, token1.log), LAMBDA number :
        Try(Lex(number.cur, number.log), LAMBDA token3 :
        IF token3.variant # "RightParens"
        THEN Fail("Expected ')'", token3.tok, token3.log)
        ELSE Build("U", <<Terminal("UToken", token0.tok),
                          Terminal("LeftParensToken", token1.tok),
                          number.node,
                          Terminal("RightParensToken", token3.tok)>>,
                   token3.cur, token3.log))))
    ELSE IF token0.variant
              \in NumberStart \cup {"Plus", "Minus", "LeftParens"} THEN
        Try(eat_number(cursor0, token0.log), LAMBDA number :
        Ok(Conversion("NumToString", number.node), number.cur, number.log))
    ELSE Fail("Expected string", token0.tok, token0.log))

\* eat_string that returns its first operand without looking for a +
eat_string_first_operand(cursor0, log) ==
    Try(string_primary(cursor0, log), LAMBDA string1 :
    Try(Lex(string1.cur, string1.log), LAMBDA tokenlast :
    Ok(string1.node, string1.cur, tokenlast.log)))

eat_string(cursor0, log) ==
    Try(string_primary(cursor0, log), LAMBDA string1 :
    Try(Lex(string1.cur, string1.log), LAMBDA tokenlast :
    IF tokenlast.variant = "Plus" THEN
        Try(eat_string(tokenlast.cur, tokenlast.log), LAMBDA string2 :
        Build("Concat",
              <<string1.node, Terminal("PlusToken", tokenlast.tok),
                string2.node>>,
              string2.cur, string2.log))
    ELSE Ok(string1.node, string1.cur, tokenlast.log)))

\* ast::LineOp::new(ast::SingleLineOp { alt }) as a result at cursor 'cur'
lineop_of(slo, cur, log) == Build("LineOp", <<slo>>, cur, log)

\* 'lineop COMMA lineops => lineoplist', the comma already read as 'comma'
lineoplist_after(lineop, comma) ==
    Try(eat_lineops(comma.cur, lineop.log), LAMBDA lineops :
    Build("LineOpList",
          <<lineop.node, Terminal("CommaToken", comma.tok), lineops.node>>,
          lineops.cur, lineops.log))

\* eat_lineops whose Sharp arm does not look for a comma: a counted
\* operation ends the list
eat_lineops_count_ends_list(cursor0, log) ==
    Try(eat_number(cursor0, log), LAMBDA number :
    Try(Lex(number.cur, number.log), LAMBDA token1 :
    IF token1.variant = "Comma" THEN
        Try(lineop_of(Conversion("NumToLineOp", number.node),
                      number.cur, token1.log), LAMBDA lineop :
        lineoplist_after(lineop, token1))
    ELSE IF token1.variant = "Sharp" THEN
        Try(eat_number(token1.cur, token1.log), LAMBDA count :
        Try(Build("CountLineOp",
                  <<number.node, Terminal("SharpToken", token1.tok),
                    count.node>>,
                  count.cur, count.log), LAMBDA countlineop :
        lineop_of(countlineop.node, count.cur, count.log)))
    ELSE lineop_of(Conversion("NumToLineOp", number.node),
                   number.cur, token1.log)))

eat_lineops(cursor0, log) ==
    Try(eat_number(cursor0, log), LAMBDA number :
    Try(Lex(number.cur, number.log), LAMBDA token1 :
    IF token1.variant = "Comma" THEN
        Try(lineop_of(Conversion("NumToLineOp", number.node),
                      number.cur, token1.log), LAMBDA lineop :
        lineoplist_after(lineop, token1))
    ELSE IF token1.variant = "Sharp" THEN
        Try(eat_number(token1.cur, token1.log), LAMBDA count :
        Try(Build("CountLineOp",
                  <<number.node, Terminal("SharpToken", token1.tok),
                    count.node>>,
                  count.cur, count.log), LAMBDA countlineop :
        Try(lineop_of(countlineop.node, count.cur, count.log),
            LAMBDA lineop :
        Try(Lex(count.cur, count.log), LAMBDA token3 :
        IF token3.variant = "Comma"
        THEN lineoplist_after([lineop EXCEPT !.log = token3.log], token3)
        ELSE Ok(lineop.node, count.cur, token3.log)))))
    ELSE lineop_of(Conversion("NumToLineOp", number.node),
                   number.cur, token1.log)))

\* the Again / Defer / Forget arms of eat_statement: the same code three
\* times, with the node type and the keyword terminal type as parameters
control_statement(type, kwtype, token0) ==
    Try(Lex(token0.cur, token0.log), LAMBDA token1 :
    IF token1.variant # "LeftParens"
    THEN Fail("Expected '('", token1.tok, token1.log)
    ELSE
    Try(eat_boolean(token1.cur, token1.log), LAMBDA boolean :
    Try(Lex(boolean.cur, boolean.log), LAMBDA token3 :
    IF token3.variant # "RightParens"
    THEN Fail("Expected ')'", token3.tok, token3.log)
    ELSE
    Try(eat_statement(token3.cur, token3.log), LAMBDA statement :
    Build(type, <<Terminal(kwtype, token0.tok),
                  Terminal("LeftParensToken", token1.tok),
                  boolean.node,
                  Terminal("RightParensToken", token3.tok),
                  statement.node>>,
          statement.cur, statement.log)))))

\* the Print arm of eat_statement
print_statement(token0) ==
    Try(Lex(token0.cur, token0.log), LAMBDA token1 :
    IF token1.variant # "LeftParens"
    THEN Fail("Expected '('", token1.tok, token1.log)
    ELSE
    Try(eat_string(token1.cur, token1.log), LAMBDA string :
    Try(Lex(string.cur, string.log), LAMBDA token3 :
    IF token3.variant # "RightParens"
    THEN Fail("Expected ')'", token3.tok, token3.log)
    ELSE Build("Print", <<Terminal("PrintToken", token0.tok),
                          Terminal("LeftParensToken", token1.tok),
                          string.node,
                          Terminal("RightParensToken", token3.tok)>>,
               token3.cur, token3.log))))

\* the default arm of eat_statement: lineops => lineoperations
lineoperations(cursor0, log) ==
    Try(eat_lineops(cursor0, log), LAMBDA lineops :
    Build("LineOperations", <<lineops.node>>, lineops.cur, lineops.log))

\* eat_statement whose line-operation arm answers a failure of
\* eat_lineops with its own error
eat_statement_rewrites_error(cursor0, log) ==
    Try(Lex(cursor0, log), LAMBDA token0 :
    IF token0.variant = "Again"
    THEN control_statement("Again", "AgainToken", token0)
    ELSE IF token0.variant = "Defer"
    THEN control_statement("Defer", "DeferToken", token0)
    ELSE IF token0.variant = "Forget"
    THEN control_statement("Forget", "ForgetToken", token0)
    ELSE IF token0.variant = "Print" THEN print_statement(token0)
    ELSE IF token0.variant \in NumberStart
              \cup {"Plus", "Minus", "LeftParens", "String", "U"} THEN
        LET statement == lineoperations(cursor0, token0.log)
        IN  IF ~statement.ok
            THEN Fail("Expected statement", token0.tok, statement.log)
            ELSE statement
    ELSE Fail("Expected statement", token0.tok, token0.log))

\* eat_statement whose Defer arm builds an Again node (the three arms are
\* copies of one another)
eat_statement_defer_as_again(cursor0, log) ==
    Try(Lex(cursor0, log), LAMBDA token0 :
    IF token0.variant = "Again"
    THEN control_statement("Again", "AgainToken", token0)
    ELSE IF token0.variant = "Defer"
    THEN control_statement("Again", "DeferToken", token0)
    ELSE IF token0.variant = "Forget"
    THEN control_statement("Forget", "ForgetToken", token0)
    ELSE IF token0.variant = "Print" THEN print_statement(token0)
    ELSE IF token0.variant \in NumberStart
              \cup {"Plus", "Minus", "LeftParens", "String", "U"}
    THEN lineoperations(cursor0, token0.log)
    ELSE Fail("Expected statement", token0.tok, token0.log))

eat_statement(cursor0, log) ==
    Try(Lex(cursor0, log), LAMBDA token0 :
    IF token0.variant = "Again"
    THEN control_statement("Again", "AgainToken", token0)
    ELSE IF token0.variant = "Defer"
    THEN control_statement("Defer", "DeferToken", token0)
    ELSE IF token0.variant = "Forget"
    THEN control_statement("Forget", "ForgetToken", token0)
    ELSE IF token0.variant = "Print" THEN print_statement(token0)
    ELSE IF token0.variant \in NumberStart
              \cup {"Plus", "Minus", "LeftParens", "String", "U"}
    THEN lineoperations(cursor0, token0.log)
    ELSE Fail("Expected statement", token0.tok, token0.log))

\* eat_line whose "Expected ';'" error spans the rest of the input instead
\* of the unexpected token
eat_line_spans_rest(cursor0, log) ==
    Try(Lex(cursor0, log), LAMBDA token0 :
    IF token0.variant # "Number"
    THEN Fail("Expected number", token0.tok, token0.log)
    ELSE
    Try(eat_statement(token0.cur, token0.log), LAMBDA statement :
    Try(Lex(statement.cur, statement.log), LAMBDA token2 :
    IF token2.variant # "Semicolon"
    THEN Fail("Expected ';'", Slice(token2.tok.s, InputLen), token2.log)
    ELSE Build("Line", <<NumberToken(token0.tok, token0.val),
                         statement.node,
                         Terminal("SemicolonToken", token2.tok)>>,
               token2.cur, token2.log))))

\* eat_line that reads the statement, then starts again on the same cursor
\* and reads it a second time
eat_line_restarts_statement(cursor0, log) ==
    Try(Lex(cursor0, log), LAMBDA token0 :
    IF token0.variant # "Number"
    THEN Fail("Expected number", token0.tok, token0.log)
    ELSE
    Try(eat_statement(token0.cur, token0.log), LAMBDA first :
    Try(eat_statement(token0.cur, first.log), LAMBDA statement :
    Try(Lex(statement.cur, statement.log), LAMBDA token2 :
    IF token2.variant # "Semicolon"
    THEN Fail("Expected ';'", token2.tok, token2.log)
    ELSE Build("Line", <<NumberToken(token0.tok, token0.val),
                         statement.node,
                         Terminal("SemicolonToken", token2.tok)>>,
               token2.cur, token2.log)))))

eat_line(cursor0, log) ==
    Try(Lex(cursor0, log), LAMBDA token0 :
    IF token0.variant # "Number"
    THEN Fail("Expected number", token0.tok, token0.log)
    ELSE
    Try(eat_statement(token0.cur, token0.log), LAMBDA statement :
    Try(Lex(statement.cur, statement.log), LAMBDA token2 :
    IF token2.variant # "Semicolon"
    THEN Fail("Expected ';'", token2.tok, token2.log)
    ELSE Build("Line", <<NumberToken(token0.tok, token0.val),
                         statement.node,
                         Terminal("SemicolonToken", token2.tok)>>,
               token2.cur, token2.log))))

\* parse_line without the end-of-input check: whatever follows the line is
\* accepted
parse_line_accepts_rest(cursor0, log) ==
    Try(eat_line(cursor0, log), LAMBDA line :
    Try(Lex(line.cur, line.log), LAMBDA token1 :
    Ok(line.node, line.cur, token1.log)))

\* lib.rs: parse_line.  Ok(line) drops the cursor: the result keeps it only
\* to show where eat_line stopped.
parse_line(cursor0, log) ==
    Try(eat_line(cursor0, log), LAMBDA line :
    Try(Lex(line.cur, line.log), LAMBDA token1 :
    IF token1.variant = "EOI" THEN Ok(line.node, line.cur, token1.log)
    ELSE Fail("Expected end of input", token1.tok, token1.log)))

-----------------------------------------------------------------------------
(* ast.rs: the dot export.  A text is a sequence of atoms: one character   *)
(* for everything that comes from the input or from a formatted number,    *)
(* one string for each fixed piece of a format string and for each type    *)
(* name.  No fixed piece holds a 0 or starts with an x, so an occurrence   *)
(* of "0x" in a text is an atom "0" followed by an atom "x".  The arrow of *)
(* a conversion's label is written "=>".                                   *)

HexChars ==
    <<"0", "1", "2", "3", "4", "5", "6", "7", "8", "9",
      "a", "b", "c", "d", "e", "f">>

\* format!("{:x}", n)
hex(n) ==
    IF n < 16 THEN <<HexChars[n + 1]>>
    ELSE hex(n \div 16) \o <<HexChars[(n % 16) + 1]>>

\* format!("{}", n)
dec(n) ==
    IF n < 10 THEN <<HexChars[n + 1]>>
    ELSE dec(n \div 10) \o <<HexChars[(n % 10) + 1]>>

\* format!("{:p}", ptr) and format!("{:#x}", n)
pointer(addr) == <<"0", "x">> \o hex(addr)

\* get_id without the type name of a nonterminal: a node and its only child
\* share an identifier
get_id_no_type(n, buffer) ==
    IF n.type \in ConversionTypes
    THEN get_id_no_type(n.kids[1], buffer) \o <<"_", n.type>>
    ELSE IF "tok" \in DOMAIN n
    THEN pointer(buffer + n.tok.s) \o <<"_">> \o dec(SliceLen(n.tok))
    ELSE pointer(buffer + n.range.s) \o <<"_">> \o dec(SliceLen(n.range))

\* Graph::get_id; 'buffer' is the address of the first byte of the input
get_id(n, buffer) ==
    IF n.type \in ConversionTypes
    THEN get_id(n.kids[1], buffer) \o <<"_", n.type>>
    ELSE IF "tok" \in DOMAIN n
    THEN pointer(buffer + n.tok.s) \o <<"_">> \o dec(SliceLen(n.tok))
    ELSE pointer(buffer + n.range.s) \o <<"_">> \o dec(SliceLen(n.range))
             \o <<"_", n.type>>

\* the $from and $to of each conversion
ConversionLabel ==
    [NumToBool   |-> <<"Number", "Boolean">>,
     NumToLineOp |-> <<"Number", "SingleLineOp">>,
     NumToString |-> <<"Number", "String">>,
     StringToNum |-> <<"String", "Number">>]

\* Graph::get_label
get_label(n) ==
    IF n.type \in ConversionTypes
    THEN <<"<<I>", ConversionLabel[n.type][1], " => ",
           ConversionLabel[n.type][2], "</I>>">>
    ELSE IF n.type = "NumberToken"
    THEN <<"\"">> \o Text(n.tok) \o <<" ", "(">> \o dec(n.val)
             \o <<")", "\"">>
    ELSE IF "tok" \in DOMAIN n
    THEN <<"\"">> \o Text(n.tok) \o <<"\"">>
    ELSE <<"<<I>", n.type, "</I>>">>

\* Graph::to_dot
to_dot(n, buffer) ==
    <<"  \"">> \o get_id(n, buffer) \o <<"\" [label=">> \o get_label(n)
        \o <<"];\n">> \o to_dot_recurse(n, buffer)

\* the arrow to the i-th field and the field's subtree, then the later fields
to_dot_fields(n, i, buffer) ==
    IF i > Len(n.kids) THEN <<>>
    ELSE <<"  \"">> \o get_id(n, buffer) \o <<"\" -> \"">>
             \o get_id(n.kids[i], buffer) \o <<"\";\n">>
             \o to_dot(n.kids[i], buffer)
             \o to_dot_fields(n, i + 1, buffer)

\* Graph::to_dot_recurse
to_dot_recurse(n, buffer) ==
    IF "kids" \in DOMAIN n THEN to_dot_fields(n, 1, buffer) ELSE <<>>

\* the offsets, in order, between lo and hi, where dot.split("0x") cuts the
\* text: "0x" cannot overlap itself, so every occurrence is a cut
Marks(dot, lo, hi) ==
    IF lo > hi THEN <<>>
    ELSE IF lo = hi
    THEN IF dot[lo] = "0" /\ dot[lo + 1] = "x" THEN <<lo>> ELSE <<>>
    ELSE Marks(dot, lo, (lo + hi) \div 2)
             \o Marks(dot, (lo + hi) \div 2 + 1, hi)

\* the offset of the last atom of the piece after the k-th cut
PieceEnd(dot, ms, k) == IF k < Len(ms) THEN ms[k + 1] - 1 ELSE Len(dot)

\* the digits of usize::from_str_radix(addr, 16): -1 on an invalid digit
hex_digits(addr, i, acc) ==
    IF i > Len(addr) THEN acc
    ELSE IF DigitVal(addr[i]) >= 16 THEN -1
    ELSE hex_digits(addr, i + 1, acc * 16 + DigitVal(addr[i]))

\* usize::from_str_radix(addr, 16), which accepts a leading + sign
from_hex(addr) ==
    IF Len(addr) >= 2 /\ addr[1] = "+" THEN hex_digits(addr, 2, 0)
    ELSE hex_digits(addr, 1, 0)

\* abnormal.split_at(hexsize) and from_str_radix(addr, 16) for the piece
\* after the k-th cut: the address, -1 when it has an invalid digit, -2
\* when the piece is shorter than hexsize
piece_addr(dot, ms, k, hexsize) ==
    IF PieceEnd(dot, ms, k) - (ms[k] + 1) < hexsize THEN -2
    ELSE from_hex(SubSeq(dot, ms[k] + 2, ms[k] + 1 + hexsize))

\* format!("{:#x}", offset) of a subtraction that wrapped around 2^64 by
\* d, 0 < d <= 61440: twelve f and the four digits of 2^16 - d
wrapped(d) == <<"0", "x">> \o [i \in 1..12 |-> "f"] \o hex(65536 - d)

Normalized(dot) == [ok |-> TRUE, dot |-> dot]

Panic(msg) == [ok |-> FALSE, msg |-> msg]

\* the loop body panics: split_at on a short piece, unwrap on an invalid
\* digit, and the subtraction on overflow in a build with overflow checks
\* (it wraps in a build without)
piece_panics(addr, base, release) == addr < 0 \/ (addr < base /\ ~release)

panic_at(addr) ==
    IF addr = -2 THEN Panic("byte index out of bounds")
    ELSE IF addr = -1 THEN Panic("called Result::unwrap() on an Err value")
    ELSE Panic("attempt to subtract with overflow")

\* format!("{:#x}", offset)
offset_text(addr, base) ==
    IF addr >= base THEN pointer(addr - base) ELSE wrapped(base - addr)

\* what the loop body appends for the piece after the k-th cut
piece_text(dot, ms, k, base, hexsize) ==
    offset_text(piece_addr(dot, ms, k, hexsize), base)
        \o SubSeq(dot, ms[k] + 2 + hexsize, PieceEnd(dot, ms, k))

\* what the loop appends for the pieces lo to hi
pieces_text(dot, ms, lo, hi, base, hexsize) ==
    IF lo > hi THEN <<>>
    ELSE IF lo = hi THEN piece_text(dot, ms, lo, base, hexsize)
    ELSE pieces_text(dot, ms, lo, (lo + hi) \div 2, base, hexsize)
             \o pieces_text(dot, ms, (lo + hi) \div 2 + 1, hi, base, hexsize)

\* the first piece whose loop body panics
first_panic(dot, ms, base, hexsize, release) ==
    CHOOSE k \in 1 .. Len(ms) :
        /\ piece_panics(piece_addr(dot, ms, k, hexsize), base, release)
        /\ \A l \in 1 .. k - 1 :
              ~piece_panics(piece_addr(dot, ms, l, hexsize), base, release)

\* split.next().unwrap(): the text before the first cut
first_piece(dot, ms) ==
    IF ms = <<>> THEN dot ELSE SubSeq(dot, 1, ms[1] - 1)

\* the loop over the pieces of dot.split("0x"); ms are the cuts
normalize(dot, ms, base, hexsize, release) ==
    IF \E k \in 1 .. Len(ms) :
          piece_panics(piece_addr(dot, ms, k, hexsize), base, release)
    THEN panic_at(piece_addr(dot, ms,
                             first_panic(dot, ms, base, hexsize, release),
                             hexsize))
    ELSE Normalized(first_piece(dot, ms)
                        \o pieces_text(dot, ms, 1, Len(ms), base, hexsize))

\* to_dot_normalized of a tree whose input buffer is at address 'buffer'
to_dot_normalized(root, buffer, release) ==
    normalize(to_dot(root, buffer),
              Marks(to_dot(root, buffer), 1, Len(to_dot(root, buffer)) - 1),
              buffer + get_str(root).s,
              Len(hex(buffer + get_str(root).s)), release)

-----------------------------------------------------------------------------
(* Inputs.  An input is the concatenation of a bounded number of pieces   *)
(* of one vocabulary; the lexer then reads it character by character.     *)

RECURSIVE Flat(_, _, _)

MaxNumberToks == 5

MaxBooleanToks == 5

MaxLineOpsToks == 5

MaxStatementToks == 4

MaxLineToks == 6

MaxChars == 4

MaxNumeralChars == 4

MaxWordPieces == 3

MaxStringChars == 5

MaxDotToks == 5

MaxCallToks == 4
MaxWideToks == 3

Flat(V, f, i) == IF i > Len(f) THEN <<>> ELSE V[f[i]] \o Flat(V, f, i + 1)

\* the input is made of at most n pieces of the vocabulary V
FromPieces(V, n) ==
    \E k \in 0..n : \E f \in [1..k -> 1..Len(V)] : input = Flat(V, f, 1)

\* numbers: 1+1*1, -1+1, (1-1)*1
VNumber ==
    << <<"1">>,
       <<"+">>,
       <<"-">>,
       <<"*">>,
       <<"(", "1", "-", "1", ")">> >>

\* booleans: 1&&1||1, !1&&1, 1==1, (1)==1
VBoolean ==
    << <<"1">>,
       <<"!">>,
       <<"&", "&">>,
       <<"|", "|">>,
       <<"=", "=">>,
       <<"(", "1", ")">> >>

\* line operations: 1,2#3,1
VLineOps ==
    << <<"1">>,
       <<"2", "#", "3">>,
       <<",">>,
       <<"#">>,
       <<"-">> >>

\* statements: again(1)defer(!1)2#3
VStatement ==
    << <<"a", "g", "a", "i", "n", "(", "1", ")">>,
       <<"d", "e", "f", "e", "r", "(", "!", "1", ")">>,
       <<"f", "o", "r", "g", "e", "t", "(", "1", "<", "1", ")">>,
       <<"1">>,
       <<"p", "r", "i", "n", "t", "(", "\"", "a", "\"", ")">>,
       <<"2", "#", "3">>,
       <<",">> >>

\* lines: 1 1; with blanks and trailing text
VLine ==
    << <<"1">>,
       <<" ">>,
       <<";">>,
       <<"x">> >>

\* operator characters, one by one
VChars ==
    << <<"&">>,
       <<"|">>,
       <<"=">>,
       <<"!">>,
       <<"<">>,
       <<">">>,
       <<"1">>,
       <<" ">> >>

\* numerals, character by character: 0b11, 0x1f, 0X1f, 018, 0B1, 0f
VNumerals ==
    << <<"0">>,
       <<"1">>,
       <<"8">>,
       <<"b">>,
       <<"x">>,
       <<"X">>,
       <<"f">>,
       <<"B">> >>

\* words: again, Again, againx, Nagain, n
VWords ==
    << <<"a", "g", "a", "i", "n">>,
       <<"d", "e", "f", "e", "r">>,
       <<"f", "o", "r", "g", "e", "t">>,
       <<"N">>,
       <<"p", "r", "i", "n", "t">>,
       <<"r", "e", "a", "d">>,
       <<"U">>,
       <<"A", "g", "a", "i", "n">>,
       <<"n">>,
       <<"x">>,
       <<"1">>,
       <<" ">> >>

\* string literals: "a", "\"", "\\", "a
VStrings == << <<"\"">>, <<"\\">>, <<"a">>, <<" ">> >>

\* calls: U(1), U(1+1), U(-1), N(1+1), read(), read(1), U(read())
VCalls ==
    << <<"U", "(">>,
       <<"N", "(", "1">>,
       <<"r", "e", "a", "d", "(">>,
       <<")">>,
       <<"1">>,
       <<"+", "1">>,
       <<"-", "1">> >>

\* numerals around usize::MAX: 65535 and 65536, 0xffff and 0x1ffff,
\* 0177777 and 0277777, 0b1 with sixteen digits, 655358 and 07777778
VWide ==
    << <<"6", "5", "5", "3">>,
       <<"5">>,
       <<"6">>,
       <<"0">>,
       <<"0", "x">>,
       <<"f", "f", "f", "f">>,
       <<"1">>,
       <<"7", "7", "7", "7">>,
       <<"8">>,
       <<"0", "b", "1", "1", "1", "1", "1", "1", "1", "1">>,
       <<"1", "1", "1", "1", "1", "1", "1", "1">>,
       <<" ">> >>

\* lines with literals for the dot export: 1 1; and 1 0x1; and 1 0x11;
VDot == << <<"1">>, <<" ">>, <<";">>, <<"0", "x", "1">> >>

\* the addresses the input buffer may be at; with each of them every
\* pointer into the buffer has as many hexadecimal digits as the buffer's
Bases == {16, 32, 256}

\* the first line of fibo.wnvr (tests/smoke.rs, tests/dot.rs)
Fibo ==
    <<"1", " ", "a", "g", "a", "i", "n", " ", "(", "1", ")", " ", "d", "e",
      "f", "e", "r", " ", "(", "3", " ", "|", "|", " ", "N", "(", "1", ")",
      "<", "=", "N", "(", "2", ")", " ", "|", "|", " ", "N", "(", "7", ")",
      ">", "9", "9", ")", " ", "2", "#", "N", "(", "1", ")", ",", "3", ",",
      "7", ";">>

-----------------------------------------------------------------------------
(* The state machine: one call of one entry point on the input.            *)

NoResult == [ok |-> FALSE, msg |-> "", span |-> Slice(0, 0), log |-> <<>>]

Init ==
    /\ \/ FromPieces(VNumber, MaxNumberToks)
       \/ FromPieces(VBoolean, MaxBooleanToks)
       \/ FromPieces(VLineOps, MaxLineOpsToks)
       \/ FromPieces(VStatement, MaxStatementToks)
       \/ FromPieces(VLine, MaxLineToks)
       \/ FromPieces(VChars, MaxChars)
       \/ FromPieces(VNumerals, MaxNumeralChars)
       \/ FromPieces(VWords, MaxWordPieces)
       \/ FromPieces(VStrings, MaxStringChars)
       \/ FromPieces(VDot, MaxDotToks)
       \/ FromPieces(VCalls, MaxCallToks)
       \/ FromPieces(VWide, MaxWideToks)
       \/ input = Fibo
    /\ pc = "start"
    /\ result = NoResult

LexerEat ==
    /\ pc = "start"
    /\ result' = eat(0)
    /\ pc' = "lexer::eat"
    /\ UNCHANGED input

EatAbsnumber ==
    /\ pc = "start"
    /\ result' = eat_absnumber(0, <<>>)
    /\ pc' = "eat_absnumber"
    /\ UNCHANGED input

EatNumber ==
    /\ pc = "start"
    /\ result' = eat_number(0, <<>>)
    /\ pc' = "eat_number"
    /\ UNCHANGED input

EatBoolean ==
    /\ pc = "start"
    /\ result' = eat_boolean(0, <<>>)
    /\ pc' = "eat_boolean"
    /\ UNCHANGED input

EatString ==
    /\ pc = "start"
    /\ result' = eat_string(0, <<>>)
    /\ pc' = "eat_string"
    /\ UNCHANGED input

EatLineops ==
    /\ pc = "start"
    /\ result' = eat_lineops(0, <<>>)
    /\ pc' = "eat_lineops"
    /\ UNCHANGED input

EatStatement ==
    /\ pc = "start"
    /\ result' = eat_statement(0, <<>>)
    /\ pc' = "eat_statement"
    /\ UNCHANGED input

EatLine ==
    /\ pc = "start"
    /\ result' = eat_line(0, <<>>)
    /\ pc' = "eat_line"
    /\ UNCHANGED input

ParseLine ==
    /\ pc = "start"
    /\ result' = parse_line(0, <<>>)
    /\ pc' = "parse_line"
    /\ UNCHANGED input

\* tests/dot.rs: to_dot_normalized(&parse_line(input).unwrap())
ToDotNormalized ==
    /\ pc = "start"
    /\ parse_line(0, <<>>).ok
    /\ \E buffer \in Bases : \E release \in BOOLEAN :
          result' = to_dot_normalized(parse_line(0, <<>>).node, buffer,
                                      release)
    /\ pc' = "to_dot_normalized"
    /\ UNCHANGED input

Next ==
    \/ LexerEat
    \/ EatAbsnumber
    \/ EatNumber
    \/ EatBoolean
    \/ EatString
    \/ EatLineops
    \/ EatStatement
    \/ EatLine
    \/ ParseLine
    \/ ToDotNormalized

Spec == Init /\ [][Next]_vars

-----------------------------------------------------------------------------
(* What the properties are stated with *)

\* tests::string_tokenization: lexer::eat repeated from cursor c until the
\* end of input or the first error; the tokens read, in order
tokenize(c) ==
    LET r == eat(c)
    IN  IF ~r.ok \/ r.variant = "EOI" THEN <<>>
        ELSE <<r>> \o tokenize(r.cur)

\* the subtrees of a node, the node first, then those of its children in
\* field order
Subtrees(n) ==
    IF "kids" \in DOMAIN n THEN <<n>> \o SubtreesOf(n.kids, 1) ELSE <<n>>

SubtreesOf(kids, i) ==
    IF i > Len(kids) THEN <<>>
    ELSE Subtrees(kids[i]) \o SubtreesOf(kids, i + 1)

\* a parser entry point has returned
Returned(name) == pc = name

Accepted(name) == pc = name /\ result.ok

Rejected(name) == pc = name /\ ~result.ok

\* the offset just after the last non-whitespace character of the input
TrimEnd ==
    LET S == {i \in 1..InputLen : input[i] \notin WhiteSpace}
    IN  IF S = {} THEN 0 ELSE CHOOSE i \in S : \A j \in S : j <= i

\* the input without its leading and trailing whitespace, as a slice
Trimmed == Slice(trim_start(0), TrimEnd)

\* the slice [c, end of input) holds whitespace only
BlankFrom(c) == \A i \in c..(InputLen - 1) : At(i) \in WhiteSpace

-----------------------------------------------------------------------------
(* C1: for every input parse_line accepts, the span of the root Line node  *)
(* is the input without its leading and trailing whitespace: it starts at  *)
(* the line-number token and ends at the semicolon, and nothing but        *)
(* whitespace follows the semicolon.                                       *)

C1_RootSpanIsTrimmedInput ==
    Accepted("parse_line") =>
        /\ result.node.type = "Line"
        /\ get_str(result.node) = Trimmed
        /\ result.node.kids[1].tok.s = get_str(result.node).s
        /\ result.node.kids[3].tok.e = get_str(result.node).e
        /\ Text(result.node.kids[3].tok) = <<";">>
        /\ BlankFrom(get_str(result.node).e)

\* an accepted line with whitespace on both sides and inside
C1_Witness ==
    /\ Accepted("parse_line")
    /\ InputLen >= 6
    /\ At(0) \in WhiteSpace
    /\ At(InputLen - 1) \in WhiteSpace
    /\ \E i \in 1..(InputLen - 2) : At(i) \in WhiteSpace /\ i < TrimEnd
    /\ SliceLen(get_str(result.node)) < InputLen

-----------------------------------------------------------------------------
(* C2: a complete valid line followed by non-whitespace trailing text.     *)

\* eat_line accepts a prefix of the input and text other than whitespace
\* follows it
LineThenText ==
    LET line == eat_line(0, <<>>)
    IN  line.ok /\ ~BlankFrom(line.cur)

\* C2 as written: parse_line then fails with "Expected end of input",
\* whatever the trailing text is.
C2_Original ==
    (Returned("parse_line") /\ LineThenText) =>
        (~result.ok /\ result.msg = "Expected end of input")

\* C2 amended: for a complete valid line followed by non-whitespace text,
\* parse_line fails; the failure is "Expected end of input" on the first
\* trailing token when the lexer accepts the start of the trailing text,
\* and it is the lexer's own error on the trailing text when it does not.
C2_TrailingTextFails ==
    (Returned("parse_line") /\ LineThenText) =>
        LET token1 == eat(eat_line(0, <<>>).cur)
        IN  /\ ~result.ok
            /\ token1.ok =>
                  /\ token1.variant # "EOI"
                  /\ result.msg = "Expected end of input"
                  /\ result.span = token1.tok
            /\ ~token1.ok =>
                  /\ result.msg = token1.msg
                  /\ result.span = token1.span
                  /\ result.msg # "Expected end of input"

\* a valid line followed by a token: the failure of parse_line itself
C2_Witness ==
    /\ Returned("parse_line")
    /\ LineThenText
    /\ result.msg = "Expected end of input"
    /\ SliceLen(result.span) >= 1

-----------------------------------------------------------------------------
(* C3: lexer::eat applies longest match to the operator tokens: input that *)
(* starts with && or || gives one BinBoolOp of length 2, input that starts *)
(* with == or != gives one BinNumBoolOp of length 2, and < or > gives a    *)
(* BinNumBoolOp of length 2 when = follows and of length 1 otherwise.      *)

\* the input starts with the characters w
StartsWith(w) == Len(w) <= InputLen /\ SubSeq(input, 1, Len(w)) = w

LexedAs(variant, len) ==
    /\ result.ok
    /\ result.variant = variant
    /\ result.tok = Slice(0, len)
    /\ result.cur = len

C3_LongestMatch ==
    Returned("lexer::eat") =>
        /\ (StartsWith(<<"&", "&">>) \/ StartsWith(<<"|", "|">>))
              => LexedAs("BinBoolOp", 2)
        /\ (StartsWith(<<"=", "=">>) \/ StartsWith(<<"!", "=">>))
              => LexedAs("BinNumBoolOp", 2)
        /\ (StartsWith(<<"<", "=">>) \/ StartsWith(<<">", "=">>))
              => LexedAs("BinNumBoolOp", 2)
        /\ ((StartsWith(<<"<">>) \/ StartsWith(<<">">>))
                /\ ~StartsWith(<<"<", "=">>) /\ ~StartsWith(<<">", "=">>))
              => LexedAs("BinNumBoolOp", 1)

-----------------------------------------------------------------------------
(* C4: for any two texts n1 and n2 the Number production accepts and any   *)
(* relational operator among == != < <= > >=, eat_boolean accepts the text *)
(* 'n1 op n2' and returns a BinOpNumBoolean whose operands are n1 and n2   *)
(* (the grammar rule binopnumbool := number BINNUMBOOLOP number).          *)

\* the length of the relational operator written at the first
\* non-whitespace offset at or after c; 0 when there is none
RelOpLenAt(c) ==
    LET p   == trim_start(c)
        two == IF p + 2 <= InputLen THEN SubSeq(input, p + 1, p + 2) ELSE <<>>
    IN  IF two \in {<<"=", "=">>, <<"!", "=">>, <<"<", "=">>, <<">", "=">>}
        THEN 2
        ELSE IF p < InputLen /\ At(p) \in {"<", ">"} THEN 1 ELSE 0

\* the first operand, as eat_number reads it from the start of the input
Operand1 == eat_number(0, <<>>)

\* the second operand, as eat_number reads it after the operator
Operand2 ==
    eat_number(trim_start(Operand1.cur) + RelOpLenAt(Operand1.cur), <<>>)

\* the input is 'n1 op n2': a Number, a relational operator, a Number, and
\* nothing else
NumberOpNumber ==
    /\ Operand1.ok
    /\ RelOpLenAt(Operand1.cur) > 0
    /\ Operand2.ok
    /\ BlankFrom(Operand2.cur)

C4_ComparisonAccepted ==
    (Returned("eat_boolean") /\ NumberOpNumber) =>
        /\ result.ok
        /\ result.node.type = "BinOpNumBoolean"
        /\ result.node.kids[1] = Operand1.node
        /\ result.node.kids[3] = Operand2.node
        /\ BlankFrom(result.cur)

-----------------------------------------------------------------------------
(* C5: when a lexer call or a production fails while an entry point runs,  *)
(* the entry point returns the (message, span) of that first failing call  *)
(* unchanged and returns no node: nothing is called after the failure, and *)
(* the calls before it all succeeded, at offsets that never go backwards.  *)

ParserEntries ==
    {"eat_absnumber", "eat_number", "eat_boolean", "eat_string",
     "eat_lineops", "eat_statement", "eat_line", "parse_line"}

\* the log entries before the last all succeeded, at offsets that never
\* decrease and never pass the failure
CleanUpTo(log, n) ==
    /\ \A i \in 1..(n - 1) : log[i].ok
    /\ \A i \in 1..(n - 1) : \A j \in i..(n - 1) :
          log[i].span.s <= log[j].span.s

C5_FirstFailureReturned ==
    (pc \in ParserEntries) =>
        LET log == result.log
            n   == Len(log)
        IN  /\ n >= 1
            /\ result.ok => \A i \in 1..n : log[i].ok
            /\ ~result.ok =>
                  /\ DOMAIN result = {"ok", "msg", "span", "log"}
                  /\ ~log[n].ok
                  /\ result.msg = log[n].msg
                  /\ result.span = log[n].span
                  /\ CleanUpTo(log, n)

\* parse_line fails on a lexer error met after it has read several tokens
\* and gone down into the productions
C5_Witness ==
    /\ Rejected("parse_line")
    /\ result.msg = "Unknown token"
    /\ Len(result.log) >= 5
    /\ result.span.s >= 3
    /\ ~eat_line(0, <<>>).ok

-----------------------------------------------------------------------------
(* C6: k >= 0 control wrappers 'again|defer|forget ( Boolean )' followed   *)
(* by one line-operation or print statement give k nested wrapper nodes in *)
(* source order with that statement innermost; the first line of fibo.wnvr *)
(* parses to Line{1, Again{1, Defer{cond, LineOperations{2#N(1), 3, 7}}}}  *)
(* with no input left.                                                     *)

ControlTypes == {"Again", "Defer", "Forget"}

\* the wrapper nodes from the outermost inwards
WrapperChain(n) ==
    IF n.type \in ControlTypes THEN <<n>> \o WrapperChain(n.kids[5])
    ELSE <<>>

\* the statement inside all the wrappers
Innermost(n) ==
    IF n.type \in ControlTypes THEN Innermost(n.kids[5]) ELSE n

\* the single line operations of a LineOps node, in list order
FlattenLineOps(n) ==
    IF n.type = "LineOpList"
    THEN <<n.kids[1].kids[1]>> \o FlattenLineOps(n.kids[3])
    ELSE <<n.kids[1]>>

IsControlToken(t) == t.variant \in ControlTypes

\* the again / defer / forget tokens of the input up to offset e, in order
ControlTokens(e) ==
    LET IsIn(t) == IsControlToken(t) /\ t.tok.e <= e
    IN  SelectSeq(tokenize(0), IsIn)

\* the piece w is written at offset c
PieceAt(c, w) == c + Len(w) <= InputLen /\ SubSeq(input, c + 1, c + Len(w)) = w

\* the kinds of the wrappers written one after the other from offset c on
WrapperKinds(c) ==
    IF PieceAt(c, VStatement[1])
    THEN <<"Again">> \o WrapperKinds(c + Len(VStatement[1]))
    ELSE IF PieceAt(c, VStatement[2])
    THEN <<"Defer">> \o WrapperKinds(c + Len(VStatement[2]))
    ELSE IF PieceAt(c, VStatement[3])
    THEN <<"Forget">> \o WrapperKinds(c + Len(VStatement[3]))
    ELSE <<>>

\* the offset where those wrappers end
WrappersEnd(c) ==
    IF PieceAt(c, VStatement[1]) THEN WrappersEnd(c + Len(VStatement[1]))
    ELSE IF PieceAt(c, VStatement[2])
    THEN WrappersEnd(c + Len(VStatement[2]))
    ELSE IF PieceAt(c, VStatement[3])
    THEN WrappersEnd(c + Len(VStatement[3]))
    ELSE c

\* what follows the wrappers, to the end of the input
InnerText == SubSeq(input, WrappersEnd(0) + 1, InputLen)

LineOpTexts == {VStatement[4], VStatement[6], <<"1", ",", "1">>}

PrintTexts == {VStatement[5]}

C6_FiboLine ==
    LET line  == result.node
        again == line.kids[2]
        defer == again.kids[5]
        ops   == FlattenLineOps(defer.kids[5].kids[1])
    IN  /\ result.ok
        /\ result.cur = InputLen
        /\ line.type = "Line" /\ line.kids[1].val = 1
        /\ again.type = "Again"
        /\ again.kids[3].type = "NumToBool"
        /\ again.kids[3].kids[1].kids[1].val = 1
        /\ defer.type = "Defer"
        /\ get_str(defer.kids[3]) = Slice(19, 45)
        /\ defer.kids[5].type = "LineOperations"
        /\ Len(ops) = 3
        /\ ops[1].type = "CountLineOp"
        /\ ops[1].kids[1].kids[1].val = 2
        /\ ops[1].kids[3].kids[1].type = "N"
        /\ get_str(ops[1]) = Slice(47, 53)
        /\ ops[2].type = "NumToLineOp" /\ ops[2].kids[1].kids[1].val = 3
        /\ ops[3].type = "NumToLineOp" /\ ops[3].kids[1].kids[1].val = 7

C6_WrappersNestInOrder ==
    /\ (Returned("eat_statement") /\ InnerText \in LineOpTexts \cup PrintTexts)
          =>
          LET chain == WrapperChain(result.node)
              kinds == WrapperKinds(0)
          IN  /\ result.ok
              /\ result.cur = InputLen
              /\ Len(chain) = Len(kinds)
              /\ \A i \in 1..Len(kinds) : chain[i].type = kinds[i]
              /\ Innermost(result.node).type =
                    IF InnerText \in PrintTexts THEN "Print"
                    ELSE "LineOperations"
              /\ get_str(Innermost(result.node)) =
                    Slice(WrappersEnd(0), InputLen)
    /\ Accepted("eat_statement") =>
          LET chain == WrapperChain(result.node)
              kws   == ControlTokens(result.cur)
          IN  /\ Len(chain) = Len(kws)
              /\ \A i \in 1..Len(kws) :
                    /\ chain[i].type = kws[i].variant
                    /\ chain[i].kids[1].tok = kws[i].tok
              /\ Innermost(result.node).type \in {"LineOperations", "Print"}
    /\ (Returned("parse_line") /\ input = Fibo) => C6_FiboLine

\* three wrappers of three kinds around a statement
C6_Witness ==
    /\ Accepted("eat_statement")
    /\ Len(WrapperChain(result.node)) = 3
    /\ {WrapperChain(result.node)[i].type : i \in 1..3} = ControlTypes
    /\ InnerText \in LineOpTexts \cup PrintTexts

-----------------------------------------------------------------------------
(* Chains of numerals.  The tokens of the whole input, when the lexer      *)
(* reads it to its end without an error.                                   *)

AllTokens == tokenize(0)

\* the lexer reads the whole input: nothing but whitespace follows the
\* last token of AllTokens
LexesTo(toks) == BlankFrom(IF toks = <<>> THEN 0 ELSE toks[Len(toks)].cur)

LexesToEnd == LexesTo(AllTokens)

\* toks[from..] is numeral (op numeral)* with every op of a variant in ops
IsChain(toks, from, ops) ==
    /\ Len(toks) >= from
    /\ (Len(toks) - from) % 2 = 0
    /\ \A i \in from..Len(toks) :
          IF (i - from) % 2 = 0 THEN toks[i].variant = "Number"
          ELSE toks[i].variant \in ops

Node(type, s, e, kids) == [type |-> type, range |-> Slice(s, e), kids |-> kids]

\* AbsoluteNumber over the numeral token t
NumeralNode(t) ==
    Node("AbsoluteNumber", t.tok.s, t.tok.e, <<NumberToken(t.tok, t.val)>>)

\* a op1 (b op2 (c ...)) over the chain toks[i..]
ExpectedNumber(toks, i) ==
    IF i = Len(toks) THEN NumeralNode(toks[i])
    ELSE Node("BinOpNumber", toks[i].tok.s, toks[Len(toks)].tok.e,
              <<NumeralNode(toks[i]), MathOpNode(toks[i + 1]),
                ExpectedNumber(toks, i + 2)>>)

ExpectedBoolean(toks, i) ==
    IF i = Len(toks) THEN Conversion("NumToBool", NumeralNode(toks[i]))
    ELSE Node("BinOpBoolean", toks[i].tok.s, toks[Len(toks)].tok.e,
              <<Conversion("NumToBool", NumeralNode(toks[i])),
                Terminal("BinBoolOpToken", toks[i + 1].tok),
                ExpectedBoolean(toks, i + 2)>>)

MathOps == {"Plus", "Minus", "MathOp"}

-----------------------------------------------------------------------------
(* C7: eat_number folds + - * / with one flat precedence level and to the  *)
(* right: a op1 b op2 c is BinOpNumber(a, op1, BinOpNumber(b, op2, c))     *)
(* whatever the operators are, and the left operand of a BinOpNumber is    *)
(* never a BinOpNumber.  (a, b, c are numerals here; C9 covers an operand  *)
(* that starts with a sign.)                                               *)

\* P holds of every node of the sequence
Every(nodes, P(_)) == \A i \in 1..Len(nodes) : P(nodes[i])

NoLeftNesting(type) ==
    Every(Subtrees(result.node),
          LAMBDA n : n.type = type => n.kids[1].type # type)

\* toks being the tokens of the input: a chain is folded to the right
NumberChainFolds(toks) ==
    (LexesTo(toks) /\ IsChain(toks, 1, MathOps))
        => /\ result.ok
           /\ result.node = ExpectedNumber(toks, 1)
           /\ result.cur = toks[Len(toks)].cur

C7_NumberFoldsRight ==
    /\ Returned("eat_number") => NumberChainFolds(AllTokens)
    /\ (pc \in ParserEntries /\ result.ok) => NoLeftNesting("BinOpNumber")

\* a * b + c, or a - b * c: two operators of different variants
C7_Witness ==
    /\ Accepted("eat_number")
    /\ LexesToEnd
    /\ IsChain(AllTokens, 1, MathOps)
    /\ Len(AllTokens) = 5
    /\ AllTokens[2].variant = "MathOp"
    /\ AllTokens[4].variant \in {"Plus", "Minus"}
    /\ result.node.kids[3].type = "BinOpNumber"

-----------------------------------------------------------------------------
(* C8: eat_boolean folds && and || with one flat precedence level and to   *)
(* the right: a op1 b op2 c is BinOpBoolean(a, op1, BinOpBoolean(b, op2,   *)
(* c)), and the left operand of a BinOpBoolean is never a BinOpBoolean.    *)

\* toks being the tokens of the input: a chain is folded to the right
BooleanChainFolds(toks) ==
    (LexesTo(toks) /\ IsChain(toks, 1, {"BinBoolOp"}))
        => /\ result.ok
           /\ result.node = ExpectedBoolean(toks, 1)
           /\ result.cur = toks[Len(toks)].cur

C8_BooleanFoldsRight ==
    /\ Returned("eat_boolean") => BooleanChainFolds(AllTokens)
    /\ (pc \in ParserEntries /\ result.ok) => NoLeftNesting("BinOpBoolean")

\* a && b || c, or a || b && c
C8_Witness ==
    /\ Accepted("eat_boolean")
    /\ LexesToEnd
    /\ IsChain(AllTokens, 1, {"BinBoolOp"})
    /\ Len(AllTokens) = 5
    /\ Text(AllTokens[2].tok) # Text(AllTokens[4].tok)
    /\ result.node.kids[3].type = "BinOpBoolean"

-----------------------------------------------------------------------------
(* C9: a unary prefix binds to everything to its right: -a op b is         *)
(* UnOpNumber(-, BinOpNumber(a, op, b)), !a && b is UnOpBoolean(!,         *)
(* BinOpBoolean(a, &&, b)), and the operand of a unary node ends where the *)
(* longest expression after the prefix ends.                               *)

\* no token of a variant in ops follows the slice of node n
NotFollowedBy(n, ops) ==
    LET t == eat(get_str(n).e) IN t.ok => t.variant \notin ops

\* toks being the tokens of the input: a sign takes the whole chain
SignTakesChain(toks) ==
    (LexesTo(toks) /\ Len(toks) >= 2
            /\ toks[1].variant \in {"Plus", "Minus"}
            /\ IsChain(toks, 2, MathOps))
        => /\ result.ok
           /\ result.node =
                 Node("UnOpNumber", toks[1].tok.s, toks[Len(toks)].tok.e,
                      <<MathOpNode(toks[1]), ExpectedNumber(toks, 2)>>)

\* toks being the tokens of the input: a negation takes the whole chain
NotTakesChain(toks) ==
    (LexesTo(toks) /\ Len(toks) >= 2
            /\ toks[1].variant = "UnBoolOp"
            /\ IsChain(toks, 2, {"BinBoolOp"}))
        => /\ result.ok
           /\ result.node =
                 Node("UnOpBoolean", toks[1].tok.s, toks[Len(toks)].tok.e,
                      <<Terminal("UnBoolOpToken", toks[1].tok),
                        ExpectedBoolean(toks, 2)>>)

C9_UnaryBindsToTheRight ==
    /\ Returned("eat_number") => SignTakesChain(AllTokens)
    /\ Returned("eat_boolean") => NotTakesChain(AllTokens)
    /\ (pc \in ParserEntries /\ result.ok) =>
          Every(Subtrees(result.node), LAMBDA n :
              /\ n.type = "UnOpNumber" =>
                    /\ get_str(n).e = get_str(n.kids[2]).e
                    /\ NotFollowedBy(n, MathOps)
              /\ n.type = "UnOpBoolean" =>
                    /\ get_str(n).e = get_str(n.kids[2]).e
                    /\ NotFollowedBy(n, {"BinBoolOp"}))

\* -a op b
C9_Witness ==
    /\ Accepted("eat_number")
    /\ LexesToEnd
    /\ Len(AllTokens) = 4
    /\ AllTokens[1].variant = "Minus"
    /\ IsChain(AllTokens, 2, MathOps)
    /\ result.node.type = "UnOpNumber"
    /\ result.node.kids[2].type = "BinOpNumber"

-----------------------------------------------------------------------------
(* C10: for k >= 1 line operations separated by commas, each a Number or   *)
(* Number # Number, eat_lineops returns a list that holds exactly those k  *)
(* operations in source order: a plain Number under NumToLineOp, a counted *)
(* one as CountLineOp(line, #, count); the list is never empty.            *)

\* the number of tokens of the line operation that starts at toks[i]
ItemLen(toks, i) ==
    IF i + 1 <= Len(toks) /\ toks[i + 1].variant = "Sharp" THEN 3 ELSE 1

\* toks[i..] is item (, item)* with item a numeral or numeral # numeral
IsLineOpsForm(toks, i) ==
    /\ i + ItemLen(toks, i) - 1 <= Len(toks)
    /\ toks[i].variant = "Number"
    /\ toks[i + ItemLen(toks, i) - 1].variant = "Number"
    /\ \/ i + ItemLen(toks, i) - 1 = Len(toks)
       \/ /\ i + ItemLen(toks, i) < Len(toks)
          /\ toks[i + ItemLen(toks, i)].variant = "Comma"
          /\ IsLineOpsForm(toks, i + ItemLen(toks, i) + 1)

\* the SingleLineOp of the item that starts at toks[i]
ExpectedItem(toks, i) ==
    IF ItemLen(toks, i) = 3
    THEN Node("CountLineOp", toks[i].tok.s, toks[i + 2].tok.e,
              <<NumeralNode(toks[i]), Terminal("SharpToken", toks[i + 1].tok),
                NumeralNode(toks[i + 2])>>)
    ELSE Conversion("NumToLineOp", NumeralNode(toks[i]))

ExpectedLineOps(toks, i) ==
    LET item   == ExpectedItem(toks, i)
        last   == i + ItemLen(toks, i) - 1
        lineop == Node("LineOp", toks[i].tok.s, toks[last].tok.e, <<item>>)
    IN  IF last = Len(toks) THEN lineop
        ELSE Node("LineOpList", toks[i].tok.s, toks[Len(toks)].tok.e,
                  <<lineop, Terminal("CommaToken", toks[last + 1].tok),
                    ExpectedLineOps(toks, last + 2)>>)

\* the commas among the tokens toks up to offset e
CommasIn(toks, e) ==
    LET IsIn(t) == t.variant = "Comma" /\ t.tok.e <= e
    IN  Len(SelectSeq(toks, IsIn))

\* the commas of the input up to offset e
CommasBefore(e) == CommasIn(tokenize(0), e)

\* toks being the tokens of the input: the list holds its operations
LineOpsListed(toks) ==
    (LexesTo(toks) /\ toks # <<>> /\ IsLineOpsForm(toks, 1))
        => /\ result.ok
           /\ result.node = ExpectedLineOps(toks, 1)
           /\ Len(FlattenLineOps(result.node)) = CommasIn(toks, InputLen) + 1

C10_LineOpsKeepOrder ==
    /\ Returned("eat_lineops") => LineOpsListed(AllTokens)
    /\ Accepted("eat_lineops") =>
          LET ops == FlattenLineOps(result.node)
          IN  /\ Len(ops) >= 1
              /\ Len(ops) = CommasBefore(result.cur) + 1
              /\ \A i \in 1..Len(ops) :
                    ops[i].type \in {"NumToLineOp", "CountLineOp"}
              /\ \A i \in 1..(Len(ops) - 1) :
                    get_str(ops[i]).e < get_str(ops[i + 1]).s

\* three operations, counted ones and a plain one
C10_Witness ==
    /\ Accepted("eat_lineops")
    /\ LexesToEnd
    /\ IsLineOpsForm(AllTokens, 1)
    /\ Len(FlattenLineOps(result.node)) = 3
    /\ FlattenLineOps(result.node)[1].type = "CountLineOp"
    /\ FlattenLineOps(result.node)[2].type = "NumToLineOp"
    /\ FlattenLineOps(result.node)[3].type = "CountLineOp"

-----------------------------------------------------------------------------
(* C11: when a line number and a complete statement are followed by a      *)
(* token other than ';' (as in '1 2 3', or at end of input), eat_line      *)
(* fails with "Expected ';'" and the span of the error is that token, the  *)
(* empty slice at the end of the input when it is the end of input.        *)

\* the line number, as eat_line reads it
LineNumber == eat(0)

\* the statement after the line number, as eat_statement reads it
LineStatement == eat_statement(LineNumber.cur, <<>>)

\* when the token that follows the statement eat_statement reads after
\* the line number is not ';', eat_line fails with "Expected ';'" and the
\* span is that token, the empty slice at the end of the input when it is
\* the end of input.
C11_MissingSemicolon ==
    (Returned("eat_line")
        /\ LineNumber.ok /\ LineNumber.variant = "Number"
        /\ LineStatement.ok
        /\ eat(LineStatement.cur).ok
        /\ eat(LineStatement.cur).variant # "Semicolon")
      => /\ ~result.ok
         /\ result.msg = "Expected ';'"
         /\ result.span = eat(LineStatement.cur).tok
         /\ eat(LineStatement.cur).variant = "EOI"
               => result.span = Slice(InputLen, InputLen)

\* the tokens that continue a statement that is a numeral, and ';'
AfterNumeral == {"Plus", "Minus", "MathOp", "Comma", "Sharp", "Semicolon"}

\* C11 on the tokens, as in '1 2 3': two numerals and a third token that is
\* neither ';' nor a token that continues the statement make eat_line fail
\* with "Expected ';'" on the third token.
C11_NumeralThenToken ==
    (Returned("eat_line")
        /\ LineNumber.ok /\ LineNumber.variant = "Number"
        /\ eat(LineNumber.cur).ok
        /\ eat(LineNumber.cur).variant = "Number"
        /\ eat(eat(LineNumber.cur).cur).ok
        /\ eat(eat(LineNumber.cur).cur).variant \notin AfterNumeral)
      => /\ ~result.ok
         /\ result.msg = "Expected ';'"
         /\ result.span = eat(eat(LineNumber.cur).cur).tok

\* C11: when the token after the line number and the statement is not a
\* semicolon, eat_line fails with "Expected ';'" and the span of that token,
\* the empty span at the end of the input when the input ends there
C11_ExpectedSemicolon == C11_MissingSemicolon /\ C11_NumeralThenToken

\* a line number and a statement followed by a token with text after it
C11_Witness ==
    /\ Rejected("eat_line")
    /\ LineNumber.ok /\ LineNumber.variant = "Number"
    /\ LineStatement.ok
    /\ result.msg = "Expected ';'"
    /\ SliceLen(result.span) >= 1
    /\ result.span.e < InputLen

-----------------------------------------------------------------------------
(* C12: for every numeral literal lexer::eat returns Number(v), v being    *)
(* the value of the digit run in the selected base: 0b and at least one    *)
(* binary digit select base 2 over the longest run of 0/1, 0x or 0X and at *)
(* least one hex digit select base 16 over the longest hex run, 0 and a    *)
(* decimal digit select base 8 over the longest decimal run after the 0,   *)
(* any other longest decimal run is base 10; the token is the prefix and   *)
(* that run, nothing more.  The literals are those whose value fits usize; *)
(* the others are the subject of C26.                                      *)

HexDigits == Digits \cup LowerHex \cup UpperHex

\* the offset where the longest run of characters of 'class' that starts at
\* offset i ends
RunEnd(class, i) ==
    CHOOSE e \in i..InputLen :
        /\ \A j \in i..(e - 1) : At(j) \in class
        /\ e < InputLen => At(e) \notin class

\* the smaller of two numbers
Least(a, b) == IF a < b THEN a ELSE b

\* the value of the digits [i, e) in 'base', the last digit being the
\* units; every value above usize::MAX is given as UsizeMax + 1
ValueOf(i, e, base) ==
    IF i >= e THEN 0
    ELSE Least(ValueOf(i, e - 1, base) * base + DigitVal(At(e - 1)),
               UsizeMax + 1)

\* the character at offset i, "EOF" past the end of the input
CharAt(i) == IF i < InputLen THEN At(i) ELSE "EOF"

\* the offset of the first character of the token
Start == trim_start(0)

\* lexer::eat has returned Number(val) over [Start, e) and stopped at e
NumberOver(val, e) ==
    /\ result.ok
    /\ result.variant = "Number"
    /\ result.val = val
    /\ result.tok = Slice(Start, e)
    /\ result.cur = e

\* the digits [i, e) are all below 'base'
DigitsBelow(i, e, base) == \A j \in i..(e - 1) : DigitVal(At(j)) < base

\* the base the characters at the start of the numeral select
Radix ==
    IF CharAt(Start) = "0" /\ CharAt(Start + 1) = "b"
           /\ CharAt(Start + 2) \in BinDigits THEN 2
    ELSE IF CharAt(Start) = "0" /\ CharAt(Start + 1) \in {"x", "X"}
           /\ CharAt(Start + 2) \in HexDigits THEN 16
    ELSE IF CharAt(Start) = "0" /\ CharAt(Start + 1) \in Digits THEN 8
    ELSE 10

\* the digit run of the numeral: after the prefix, the longest run of the
\* digits of the base (of decimal digits for base 8)
DigitsStart ==
    IF Radix \in {2, 16} THEN Start + 2
    ELSE IF Radix = 8 THEN Start + 1
    ELSE Start

DigitsEnd ==
    IF Radix = 2 THEN RunEnd(BinDigits, DigitsStart)
    ELSE IF Radix = 16 THEN RunEnd(HexDigits, DigitsStart)
    ELSE RunEnd(Digits, DigitsStart)

\* the digit run has a digit the base has not before its value passes
\* usize::MAX, if it does
InvalidDigitFirst ==
    \E j \in DigitsStart .. DigitsEnd - 1 :
        /\ DigitVal(At(j)) >= Radix
        /\ DigitsBelow(DigitsStart, j, Radix)
        /\ ValueOf(DigitsStart, j, Radix) <= UsizeMax

\* the digits are digits of the base and their value is above usize::MAX
Overflows ==
    \E j \in DigitsStart + 1 .. DigitsEnd :
        /\ DigitsBelow(DigitsStart, j, Radix)
        /\ ValueOf(DigitsStart, j, Radix) > UsizeMax

C12_NumeralValue ==
    (Returned("lexer::eat") /\ CharAt(Start) \in Digits /\ ~Overflows) =>
        /\ (CharAt(Start) = "0" /\ CharAt(Start + 1) = "b"
                /\ CharAt(Start + 2) \in BinDigits)
              => NumberOver(ValueOf(Start + 2,
                                    RunEnd(BinDigits, Start + 2), 2),
                            RunEnd(BinDigits, Start + 2))
        /\ (CharAt(Start) = "0" /\ CharAt(Start + 1) \in {"x", "X"}
                /\ CharAt(Start + 2) \in HexDigits)
              => NumberOver(ValueOf(Start + 2,
                                    RunEnd(HexDigits, Start + 2), 16),
                            RunEnd(HexDigits, Start + 2))
        /\ (CharAt(Start) = "0" /\ CharAt(Start + 1) \in Digits
                /\ DigitsBelow(Start + 1, RunEnd(Digits, Start + 1), 8))
              => NumberOver(ValueOf(Start + 1,
                                    RunEnd(Digits, Start + 1), 8),
                            RunEnd(Digits, Start + 1))
        /\ CharAt(Start) # "0"
              => NumberOver(ValueOf(Start, RunEnd(Digits, Start), 10),
                            RunEnd(Digits, Start))

\* an octal literal of two digits after the 0, with text after it
C12_Witness ==
    /\ Returned("lexer::eat")
    /\ CharAt(Start) = "0"
    /\ CharAt(Start + 1) = "1"
    /\ result.ok
    /\ result.variant = "Number"
    /\ result.val = 9
    /\ result.cur < InputLen

-----------------------------------------------------------------------------
(* C13: when 0 is followed by b with no binary digit after it, by x or X   *)
(* with no hex digit after it, by B, or by any other character that is not *)
(* a digit, lexer::eat returns Number(0) whose span is the character 0,    *)
(* and the remainder starts right after that 0.                            *)

\* '0b' and a binary digit, or '0x' / '0X' and a hex digit
HasBasePrefix ==
    \/ CharAt(Start + 1) = "b" /\ CharAt(Start + 2) \in BinDigits
    \/ CharAt(Start + 1) \in {"x", "X"} /\ CharAt(Start + 2) \in HexDigits

C13_LoneZero ==
    (Returned("lexer::eat")
        /\ CharAt(Start) = "0"
        /\ CharAt(Start + 1) \notin Digits
        /\ ~HasBasePrefix)
      => NumberOver(0, Start + 1)

\* '0B1': the upper-case B is no prefix
C13_Witness ==
    /\ Returned("lexer::eat")
    /\ CharAt(Start) = "0"
    /\ CharAt(Start + 1) = "B"
    /\ CharAt(Start + 2) = "1"
    /\ result.ok
    /\ result.val = 0
    /\ result.cur = Start + 1

-----------------------------------------------------------------------------
(* C14: when the digit run of a numeral holds a digit that is invalid for  *)
(* the selected base (an octal literal with 8 or 9, such as 089),          *)
(* lexer::eat fails and the span of the error is the digit run only,       *)
(* without the base prefix (89 for 089).  The error is the invalid digit   *)
(* unless the digits before it already pass usize::MAX.                    *)

C14_InvalidDigitSpan ==
    /\ (Returned("lexer::eat")
            /\ CharAt(Start) = "0" /\ CharAt(Start + 1) \in Digits
            /\ ~DigitsBelow(Start + 1, RunEnd(Digits, Start + 1), 8))
          => /\ ~result.ok
             /\ result.msg = IF InvalidDigitFirst
                             THEN "invalid digit found in string"
                             ELSE "number too large to fit in target type"
             /\ result.span = Slice(Start + 1, RunEnd(Digits, Start + 1))
    \* no other numeral whose value fits usize fails
    /\ (Returned("lexer::eat") /\ CharAt(Start) \in Digits /\ ~result.ok
            /\ ~Overflows)
          => /\ CharAt(Start) = "0" /\ CharAt(Start + 1) \in Digits
             /\ ~DigitsBelow(Start + 1, RunEnd(Digits, Start + 1), 8)

\* an octal literal with an 8 in it and text after it
C14_Witness ==
    /\ Rejected("lexer::eat")
    /\ CharAt(Start) = "0"
    /\ result.msg = "invalid digit found in string"
    /\ SliceLen(result.span) = 2
    /\ result.span.e < InputLen

-----------------------------------------------------------------------------
(* C15: lexer::eat takes the longest run of ASCII letters as one word and  *)
(* accepts it only if it is exactly, case-sensitively, one of again,       *)
(* defer, forget, N, print, read, U; it then returns the keyword token     *)
(* whose span is that word.  Every other word is an "Unknown token" error  *)
(* and is never split into a keyword and a rest.                           *)

Letters == Lower \cup Upper

\* the keywords as the spec lists them, each with the variant of its token
KeywordVariants ==
    { << <<"a", "g", "a", "i", "n">>, "Again" >>,
      << <<"d", "e", "f", "e", "r">>, "Defer" >>,
      << <<"f", "o", "r", "g", "e", "t">>, "Forget" >>,
      << <<"N">>, "N" >>,
      << <<"p", "r", "i", "n", "t">>, "Print" >>,
      << <<"r", "e", "a", "d">>, "Read" >>,
      << <<"U">>, "U" >> }

\* the longest run of letters at the start of the trimmed input
Word == SubSeq(input, Start + 1, RunEnd(Letters, Start))

C15_WholeWordKeywords ==
    (Returned("lexer::eat") /\ CharAt(Start) \in Letters) =>
        /\ \A kv \in KeywordVariants :
              Word = kv[1] =>
                  /\ result.ok
                  /\ result.variant = kv[2]
                  /\ result.tok = Slice(Start, RunEnd(Letters, Start))
                  /\ result.cur = RunEnd(Letters, Start)
        /\ (\A kv \in KeywordVariants : Word # kv[1]) =>
              /\ ~result.ok
              /\ result.msg = "Unknown token"

\* a keyword with a letter after it: one unknown word
C15_Witness ==
    /\ Rejected("lexer::eat")
    /\ Len(Word) >= 6
    /\ SubSeq(Word, 1, 5) = <<"a", "g", "a", "i", "n">>
    /\ result.msg = "Unknown token"

-----------------------------------------------------------------------------
(* C16: on input starting with a double quote, lexer::eat returns a String *)
(* token ending at the first later quote that is preceded by an even       *)
(* number of consecutive backslashes; a quote after an odd number of       *)
(* backslashes is content; with no closing quote the result is an error    *)
(* whose span runs from the opening quote to the end of the input.         *)

\* the number of consecutive backslashes just before offset j, none of them
\* the opening quote at Start
BackslashRun(j) ==
    CHOOSE k \in 0 .. j - Start - 1 :
        /\ \A i \in j - k .. j - 1 : CharAt(i) = "\\"
        /\ (k < j - Start - 1 => CharAt(j - k - 1) # "\\")

\* the offsets of the quotes that close a literal opened at Start
Closers ==
    { j \in Start + 1 .. InputLen - 1 :
        CharAt(j) = "\"" /\ BackslashRun(j) % 2 = 0 }

C16_StringEndsAtFirstCloser ==
    (Returned("lexer::eat") /\ CharAt(Start) = "\"") =>
        /\ Closers # {} =>
              /\ result.ok
              /\ result.variant = "String"
              /\ \E j \in Closers :
                    /\ \A k \in Closers : j <= k
                    /\ result.tok = Slice(Start, j + 1)
                    /\ result.cur = j + 1
        /\ Closers = {} =>
              /\ ~result.ok
              /\ result.msg = "End of input while reading string"
              /\ result.span = Slice(Start, InputLen)

\* a literal that holds an escaped quote and is followed by more input
C16_Witness ==
    /\ Accepted("lexer::eat")
    /\ result.variant = "String"
    /\ \E j \in result.tok.s + 1 .. result.tok.e - 2 :
          CharAt(j) = "\"" /\ BackslashRun(j) = 1
    /\ result.cur < InputLen

-----------------------------------------------------------------------------
(* C17: when lexer::eat succeeds, the token's text followed by the         *)
(* returned remainder is the input without its leading whitespace; the     *)
(* token is empty exactly when it is the end-of-input token, and then the  *)
(* remainder is empty too.                                                 *)

\* the input without its leading whitespace
TrimmedStart ==
    SubSeq(input,
           1 + (CHOOSE k \in 0 .. InputLen :
                   /\ \A i \in 0 .. k - 1 : CharAt(i) \in WhiteSpace
                   /\ CharAt(k) \notin WhiteSpace),
           InputLen)

\* the remainder lexer::eat returns
Remainder == SubSeq(input, result.cur + 1, InputLen)

C17_TokenThenRemainder ==
    Accepted("lexer::eat") =>
        /\ Text(result.tok) \o Remainder = TrimmedStart
        /\ result.tok.e = result.cur
        /\ (Text(result.tok) = <<>>) <=> (result.variant = "EOI")
        /\ result.variant = "EOI" => Remainder = <<>>

\* a token after leading whitespace and before more input
C17_Witness ==
    /\ Accepted("lexer::eat")
    /\ CharAt(0) \in WhiteSpace
    /\ SliceLen(result.tok) >= 2
    /\ Remainder # <<>>

-----------------------------------------------------------------------------
(* C18: the "Unknown token" error of lexer::eat carries the offending      *)
(* substring exactly: its span is the unrecognized word (the whole run of  *)
(* letters) or the unrecognized symbol (one character) and does not        *)
(* extend over the input that follows.                                     *)

\* the unrecognized word or symbol at the start of the trimmed input
Offending ==
    IF CharAt(Start) \in Letters
    THEN Slice(Start, RunEnd(Letters, Start))
    ELSE Slice(Start, Start + 1)

C18_UnknownTokenSpan ==
    (Rejected("lexer::eat") /\ result.msg = "Unknown token") =>
        result.span = Offending

-----------------------------------------------------------------------------
(* C19: every composite node of a tree the parser returns spans exactly    *)
(* from the lowest start to the highest end of its children's spans, every *)
(* child span lies inside it, the children's spans lie in the input and    *)
(* cover a non-empty range; the panic "Invalid range" of the constructor   *)
(* is never reached, from parse_line or from any production.               *)

\* the spans of the children of a composite node
ChildSpans(n) == {get_str(n.kids[i]) : i \in 1 .. Len(n.kids)}

WellSpanned(n) ==
    /\ ChildSpans(n) # {}
    /\ \A c \in ChildSpans(n) :
          /\ 0 <= c.s /\ c.s <= c.e /\ c.e <= InputLen
          /\ n.range.s <= c.s /\ c.e <= n.range.e
    /\ \E c \in ChildSpans(n) : c.s = n.range.s
    /\ \E c \in ChildSpans(n) : c.e = n.range.e
    /\ n.range.s < n.range.e

C19_CompositeSpans ==
    pc \in ParserEntries =>
        /\ result.ok =>
              Every(Subtrees(result.node), LAMBDA n :
                  "range" \in DOMAIN n => WellSpanned(n))
        /\ ~result.ok => result.msg # "panic: Invalid range"

\* an accepted line with a composite node of three children or more that
\* starts after the root starts
C19_Witness ==
    /\ Accepted("parse_line")
    /\ \E i \in 1 .. Len(Subtrees(result.node)) :
          /\ "range" \in DOMAIN Subtrees(result.node)[i]
          /\ Len(Subtrees(result.node)[i].kids) >= 3
          /\ Subtrees(result.node)[i].range.s > result.node.range.s
          /\ WellSpanned(Subtrees(result.node)[i])

-----------------------------------------------------------------------------
(* C20: for every line parse_line accepts, to_dot_normalized returns the   *)
(* export of the tree with every identifier written as the offset of the   *)
(* node's span from the start of the root's span (then its length and type *)
(* suffix) and every label as it is, whatever the address of the input     *)
(* buffer and whatever the literals of the line, those holding 0x          *)
(* included.                                                               *)

\* the tree of the line
Line == parse_line(0, <<>>).node

\* the export with offsets from the start of the root's span as pointers
OffsetExport == to_dot(Line, 0 - get_str(Line).s)

C20_NormalizedExport ==
    Returned("to_dot_normalized") =>
        /\ result.ok
        /\ result.dot = OffsetExport

-----------------------------------------------------------------------------
(* C21: in every tree a production or parse_line returns, no two distinct  *)
(* nodes (terminal, nonterminal or conversion) have the same get_id,       *)
(* wherever the input buffer is.                                           *)

\* the nodes of the returned tree
Nodes == Subtrees(result.node)

\* the identifiers of the nodes, in the order of the nodes
IdsOf(nodes, buffer) ==
    [i \in 1 .. Len(nodes) |-> get_id(nodes[i], buffer)]

\* no element occurs twice in the sequence
Distinct(ids) == Cardinality({ids[i] : i \in 1 .. Len(ids)}) = Len(ids)

C21_UniqueIds ==
    (pc \in ParserEntries /\ result.ok) =>
        \A buffer \in Bases : Distinct(IdsOf(Nodes, buffer))

\* an accepted line with a terminal, a nonterminal and a conversion that
\* all span the same text
C21_Witness ==
    /\ Accepted("parse_line")
    /\ \E i \in 1 .. Len(Nodes) : \E j \in 1 .. Len(Nodes) :
       \E k \in 1 .. Len(Nodes) :
          /\ Nodes[i].type \in ConversionTypes
          /\ "range" \in DOMAIN Nodes[j]
          /\ "tok" \in DOMAIN Nodes[k]
          /\ get_str(Nodes[i]) = get_str(Nodes[j])
          /\ get_str(Nodes[j]) = get_str(Nodes[k])
          /\ get_id(Nodes[i], 16) # get_id(Nodes[j], 16)
          /\ get_id(Nodes[j], 16) # get_id(Nodes[k], 16)

-----------------------------------------------------------------------------
(* C22: the argument of U( ) is an absolute number (a numeral, N(...) or   *)
(* read()): U(1+1) and U(-1) are rejected; the argument of N( ) is a full  *)
(* Number, so N(1+1) is accepted; read takes no argument: its ( must be    *)
(* followed by ).                                                          *)

\* the variant of the i-th token of the input, "none" when there is none
VariantAt(toks, i) == IF i <= Len(toks) THEN toks[i].variant ELSE "none"

\* the input starts with the keyword kw and a left parenthesis
CallOf(toks, kw) ==
    VariantAt(toks, 1) = kw /\ VariantAt(toks, 2) = "LeftParens"

\* U( followed by a token that starts a Number but no absolute number, or
\* by a numeral and an operator
UArgument(toks) ==
    (Returned("eat_string") /\ CallOf(toks, "U")) =>
        /\ VariantAt(toks, 3) \in {"Plus", "Minus", "LeftParens", "String", "U"}
              => /\ ~result.ok
                 /\ result.msg = "Expected number"
                 /\ result.span = toks[3].tok
        /\ (VariantAt(toks, 3) = "Number" /\ VariantAt(toks, 4) \in MathOps)
              => /\ ~result.ok
                 /\ result.msg = "Expected ')'"
                 /\ result.span = toks[4].tok
        /\ (VariantAt(toks, 3) = "Number"
                /\ VariantAt(toks, 4) = "RightParens"
                /\ VariantAt(toks, 5) # "Plus")
              => /\ result.ok
                 /\ result.node =
                       Node("U", toks[1].tok.s, toks[4].tok.e,
                            <<Terminal("UToken", toks[1].tok),
                              Terminal("LeftParensToken", toks[2].tok),
                              NumberToken(toks[3].tok, toks[3].val),
                              Terminal("RightParensToken", toks[4].tok)>>)

\* N( numeral (op numeral)* )
NArgument(toks) ==
    (Returned("eat_absnumber") /\ CallOf(toks, "N") /\ Len(toks) >= 4
        /\ IsChain(SubSeq(toks, 3, Len(toks) - 1), 1, MathOps)
        /\ toks[Len(toks)].variant = "RightParens") =>
        /\ result.ok
        /\ result.node =
              Node("N", toks[1].tok.s, toks[Len(toks)].tok.e,
                   <<Terminal("NToken", toks[1].tok),
                     Terminal("LeftParensToken", toks[2].tok),
                     ExpectedNumber(SubSeq(toks, 3, Len(toks) - 1), 1),
                     Terminal("RightParensToken", toks[Len(toks)].tok)>>)

\* read( is accepted exactly when the next token is )
ReadArgument(toks) ==
    (Returned("eat_absnumber") /\ CallOf(toks, "Read")) =>
        /\ result.ok <=> VariantAt(toks, 3) = "RightParens"
        /\ result.ok =>
              /\ result.node =
                    Node("Read", toks[1].tok.s, toks[3].tok.e,
                         <<Terminal("ReadToken", toks[1].tok),
                           Terminal("LeftParensToken", toks[2].tok),
                           Terminal("RightParensToken", toks[3].tok)>>)
              /\ result.cur = toks[3].cur
        /\ (~result.ok /\ Len(toks) >= 3) =>
              /\ result.msg = "Expected ')'"
              /\ result.span = toks[3].tok

AbsNumberTypes == {"NumberToken", "N", "Read"}

C22_CallArguments ==
    /\ UArgument(AllTokens)
    /\ NArgument(AllTokens)
    /\ ReadArgument(AllTokens)
    /\ (pc \in ParserEntries /\ result.ok) =>
          Every(Subtrees(result.node), LAMBDA n :
              n.type = "U" => n.kids[3].type \in AbsNumberTypes)

\* U(1+1): eat_string stops at the operator
C22_Witness ==
    /\ Rejected("eat_string")
    /\ CallOf(AllTokens, "U")
    /\ VariantAt(AllTokens, 3) = "Number"
    /\ VariantAt(AllTokens, 4) = "Plus"
    /\ VariantAt(AllTokens, 5) = "Number"
    /\ VariantAt(AllTokens, 6) = "RightParens"
    /\ result.msg = "Expected ')'"

-----------------------------------------------------------------------------
(* C23: the terminals of a returned tree, read left to right, are exactly  *)
(* the tokens repeated lexer::eat produces from the start of the input up  *)
(* to where the production stopped (for parse_line: up to end of input),   *)
(* each with its variant, span and value: none is dropped, duplicated or   *)
(* reordered, and they lie at increasing, non-overlapping positions with   *)
(* only whitespace between them.                                           *)

IsLeaf(n) == "tok" \in DOMAIN n

\* the terminals of the returned tree, in the order of the fields
Leaves == SelectSeq(Subtrees(result.node), IsLeaf)

\* the terminal is the token: same variant, span and value
LeafIsToken(leaf, t) ==
    /\ leaf.type = t.variant \o "Token"
    /\ leaf.tok = t.tok
    /\ leaf.type = "NumberToken" => leaf.val = t.val

\* only whitespace in [s, e)
Blank(s, e) == \A i \in s .. e - 1 : At(i) \in WhiteSpace

LeavesAreTokens(leaves, toks) ==
    /\ Len(leaves) >= 1
    /\ Len(leaves) <= Len(toks)
    /\ \A i \in 1 .. Len(leaves) : LeafIsToken(leaves[i], toks[i])
    /\ Blank(0, leaves[1].tok.s)
    /\ \A i \in 1 .. Len(leaves) - 1 :
          /\ leaves[i].tok.s < leaves[i].tok.e
          /\ leaves[i].tok.e <= leaves[i + 1].tok.s
          /\ Blank(leaves[i].tok.e, leaves[i + 1].tok.s)
    /\ result.cur = leaves[Len(leaves)].tok.e

C23_LeavesAreTheTokens ==
    /\ (pc \in ParserEntries /\ result.ok) =>
          LeavesAreTokens(Leaves, AllTokens)
    /\ Accepted("parse_line") =>
          /\ Len(Leaves) = Len(AllTokens)
          /\ Blank(result.cur, InputLen)

\* an accepted line of ten tokens or more with blanks between some of them
C23_Witness ==
    /\ Accepted("parse_line")
    /\ Len(Leaves) >= 10
    /\ Len(Leaves) = Len(AllTokens)
    /\ \E i \in 1 .. Len(Leaves) - 1 :
          Leaves[i].tok.e < Leaves[i + 1].tok.s
    /\ \E i \in 1 .. Len(Leaves) - 1 :
          Leaves[i].tok.e = Leaves[i + 1].tok.s

-----------------------------------------------------------------------------
(* C24: each expression production is maximal.  After eat_number returns   *)
(* Ok the next token is not + - * or /; after eat_boolean returns Ok it is *)
(* not && or ||; after eat_string returns Ok it is not +.  Hence the left  *)
(* operand of a Concat is never a NumToString.                             *)

\* the token after the production's result can be read and none of its
\* variant is in ops
NextTokenNot(ops) ==
    /\ eat(result.cur).ok
    /\ eat(result.cur).variant \notin ops

C24_ProductionsAreMaximal ==
    /\ Accepted("eat_number") => NextTokenNot(MathOps)
    /\ Accepted("eat_boolean") => NextTokenNot({"BinBoolOp"})
    /\ Accepted("eat_string") => NextTokenNot({"Plus"})
    /\ (pc \in ParserEntries /\ result.ok) =>
          Every(Subtrees(result.node), LAMBDA n :
              n.type = "Concat" => n.kids[1].type # "NumToString")

\* 1+1 in string context, followed by a token: the + is an addition and
\* the string is the whole sum
C24_Witness ==
    /\ Accepted("eat_string")
    /\ result.node.type = "NumToString"
    /\ result.node.kids[1].type = "BinOpNumber"
    /\ result.node.kids[1].kids[2].type = "PlusToken"
    /\ eat(result.cur).variant # "EOI"

-----------------------------------------------------------------------------
(* C25: parse_line, and every production, terminates.  Every token but     *)
(* end of input has a non-empty span, so a lexer::eat call that consumes a *)
(* token moves the cursor forward; the cursors of successive calls never   *)
(* go backwards; and the calls made at one offset are bounded: at most     *)
(* three by productions that hand the same cursor to one another (such a   *)
(* chain never comes back to a production it went through), and one more   *)
(* for each token before the offset (an enclosing production looking at    *)
(* the token after its operand).  The number of calls is therefore         *)
(* bounded by the length of the input.                                     *)

\* the offsets the log's entries are at
Offsets(log) == {log[i].span.s : i \in 1 .. Len(log)}

\* the number of entries of the log at offset s
ReadsAt(log, s) == Cardinality({i \in 1 .. Len(log) : log[i].span.s = s})

BoundedReads(log) ==
    /\ \A i \in 1 .. Len(log) :
          (log[i].ok /\ log[i].span.s = log[i].span.e) =>
              log[i].span.s = InputLen
    /\ \A i \in 1 .. Len(log) - 1 : log[i].span.s <= log[i + 1].span.s
    /\ \A s \in Offsets(log) :
          ReadsAt(log, s) <= 3 + Cardinality(Offsets(log) \cap (0 .. s - 1))
    /\ Len(log) <= (InputLen + 4) * (InputLen + 4)

C25_ParsingTerminates ==
    /\ Accepted("lexer::eat") =>
          \/ result.variant = "EOI" /\ result.cur = InputLen
          \/ result.tok.s < result.tok.e /\ result.cur > Start
    /\ pc \in ParserEntries => BoundedReads(result.log)

\* a line with nested prefixes: the token after the operand is read once
\* by each production that encloses it
C25_Witness ==
    /\ Returned("parse_line")
    /\ \E s \in Offsets(result.log) :
          /\ ReadsAt(result.log, s) >= 6
          /\ s < InputLen

-----------------------------------------------------------------------------
(* C26: a numeral whose digit run denotes a value above usize::MAX is      *)
(* rejected by lexer::eat, and the span of the error is the digit run,     *)
(* without the base prefix; the value of an accepted numeral is the value  *)
(* of its digits, never that value modulo 2^UsizeBits nor the value of     *)
(* some of the digits.                                                     *)

C26_OverflowRejected ==
    (Returned("lexer::eat") /\ CharAt(Start) \in Digits) =>
        /\ Overflows =>
              /\ ~result.ok
              /\ result.msg = "number too large to fit in target type"
              /\ result.span = Slice(DigitsStart, DigitsEnd)
        /\ result.ok =>
              /\ result.variant = "Number"
              /\ result.val <= UsizeMax
              /\ result.val = ValueOf(DigitsStart, DigitsEnd, Radix)
              /\ result.tok = Slice(Start, DigitsEnd)

\* a hexadecimal literal one digit too long, with text after it: the
\* error spans the digits and not the 0x
C26_Witness ==
    /\ Rejected("lexer::eat")
    /\ result.msg = "number too large to fit in target type"
    /\ Radix = 16
    /\ result.span = Slice(Start + 2, Start + 7)
    /\ result.span.e < InputLen

====
